---- MODULE Spec2Model ----
(***************************************************************************)
(* The local data-access layer of TransactAI (localStorageService):        *)
(* namespaced, JSON-backed CRUD over the browser's localStorage.           *)
(*                                                                         *)
(* Representation.                                                         *)
(*  - A JavaScript string is a sequence of tokens (a token is one          *)
(*    character, or one whole opaque word where the code never looks       *)
(*    inside it).  The empty string is << >>.                              *)
(*  - An omitted optional argument (undefined) and the empty string are    *)
(*    both falsy and the source only ever tests them for truthiness        *)
(*    (`if (userId)`, `userId ? a : b`, `userId || x`), so both are << >>. *)
(*  - A JavaScript object is a function from property names to values; a   *)
(*    value is a string, or one of the markers UNDEFINED, NULL, NAN.       *)
(*  - localStorage is a function from the keys present to stored texts.    *)
(*    A stored text is a record [kind, arr, obj, str]: the JSON text of an *)
(*    array of objects ("array"), of one object ("object"), or a text that *)
(*    is not JSON ("raw": a PIN, or a value written out of band).          *)
(***************************************************************************)
EXTENDS Integers, Sequences, FiniteSets, TLC

VARIABLES
    windowDefined,  \* typeof window !== 'undefined' (a browser context)
    store,          \* localStorage: key -> stored text, for the keys present
    sessionStore,   \* sessionStorage: the keys present (the per-user unlock flags)
    prev,           \* localStorage as it was when the last operation began
    last,           \* the last operation: its name, arguments and outcome
    saves,          \* history: per download key, the saves made since it was last
                    \* cleared, and whether a delete has been made since
    tabs,           \* per browser tab, the position of its transactionService.save
                    \* call and the call's local variables
    writes,         \* history: the tabs that have written, in order, since both
                    \* tabs were last idle
    route,          \* the route the router was last told to replace the current one
                    \* with ("" before any)
    pendingTransaction,   \* NotificationSimulator's state: << >> for null, or
                          \* the one pending transaction
    showCategorizeDialog, \* NotificationSimulator's state
    simulated       \* history: the transactions simulated so far, each with the
                    \* number of times it was saved

\* the state of the pages
ui == <<route, pendingTransaction, showCategorizeDialog, simulated>>

vars == <<windowDefined, store, sessionStore, prev, last, saves, tabs, writes, ui>>

----------------------------------------------------------------------------
(* Strings and values *)

UNDEFINED == <<"%undefined">>
NULL == <<"%null">>
NAN == <<"%NaN">>

EmptyObj == [k \in {} |-> << >>]

\* STORAGE_KEYS: each base key name is one opaque token
USER_PROFILE == <<"transactai_user_profile">>
TRANSACTIONS == <<"transactai_transactions">>
\* (faulty variant) the categories share the transactions' key
CATEGORIES_Shared == TRANSACTIONS

CATEGORIES == <<"transactai_categories">>
PIN == <<"transactai_pin">>
AUTH_SESSION == <<"transactai_auth_session">>
ONBOARDING_COMPLETE == <<"transactai_onboarding_complete">>
DOWNLOADS == <<"transactai_downloads">>

\* the base keys getUserKey is called with
BaseKeys == {USER_PROFILE, TRANSACTIONS, CATEGORIES, DOWNLOADS}

DEFAULT == <<"d", "e", "f", "a", "u", "l", "t">>

----------------------------------------------------------------------------
(* JSON.stringify and JSON.parse *)

\* a number that is not finite serializes as null; every other value as itself
JSONValue(v) == IF v = NAN THEN NULL ELSE v

\* the properties whose value is undefined are left out of the text
JSONObject(o) ==
    [k \in {f \in DOMAIN o : o[f] # UNDEFINED} |-> JSONValue(o[k])]

JSONArray(xs) == [i \in 1..Len(xs) |-> JSONObject(xs[i])]

StringifyArray(xs) ==
    [kind |-> "array", arr |-> JSONArray(xs), obj |-> EmptyObj, str |-> << >>]

StringifyObject(o) ==
    [kind |-> "object", arr |-> << >>, obj |-> JSONObject(o), str |-> << >>]

\* a text stored as it is (localStorage.setItem(key, pin))
RawText(s) == [kind |-> "raw", arr |-> << >>, obj |-> EmptyObj, str |-> s]

\* JSON.parse throws a SyntaxError on a text that is not JSON
ParseThrows(text) == text.kind = "raw"

ParseArray(text) == text.arr
ParseObject(text) == text.obj

\* `data ? ... : ...` on a string: only the empty string is falsy
Truthy(text) == ~(text.kind = "raw" /\ text.str = << >>)

----------------------------------------------------------------------------
(* localStorage *)

Has(st, key) == key \in DOMAIN st

setItem(st, key, text) ==
    [k \in (DOMAIN st) \cup {key} |-> IF k = key THEN text ELSE st[k]]

removeItem(st, key) == [k \in (DOMAIN st) \ {key} |-> st[k]]

\* getItem(key) is truthy: the key is present and its text is not empty
Present(st, key) == Has(st, key) /\ Truthy(st[key])

EmptyStore == [k \in {} |-> RawText(<< >>)]

----------------------------------------------------------------------------
(* getUserKey *)

\* phone.replace(/\+/g, '')
StripPlus(s) == SelectSeq(s, LAMBDA c : c # "+")

\* (faulty variant) the user id is left out of the key
Suffixed_IgnoringUser(baseKey, userId) == baseKey

\* `${baseKey}_${userId}`
Suffixed(baseKey, userId) == baseKey \o <<"_">> \o userId

\* (faulty variant) the stripped phone is used even when it is empty
SessionSuffix_NoDefault(parsed) ==
    IF "phone" \in DOMAIN parsed THEN StripPlus(parsed.phone) ELSE << >>

\* parsed.phone?.replace(/\+/g, '') || 'default'
SessionSuffix(parsed) ==
    LET phone == IF "phone" \in DOMAIN parsed THEN StripPlus(parsed.phone) ELSE << >>
    IN  IF phone # << >> THEN phone ELSE DEFAULT

\* (faulty variant) the session is consulted before the explicit user id
getUserKey_SessionFirst(win, st, baseKey, userId) ==
    IF win /\ Present(st, AUTH_SESSION) /\ ~ParseThrows(st[AUTH_SESSION])
    THEN Suffixed(baseKey, SessionSuffix(ParseObject(st[AUTH_SESSION])))
    ELSE IF userId # << >> THEN Suffixed(baseKey, userId)
    ELSE baseKey

getUserKey(win, st, baseKey, userId) ==
    IF userId # << >> THEN Suffixed(baseKey, userId)
    ELSE IF ~win THEN baseKey
    ELSE IF ~Present(st, AUTH_SESSION) THEN baseKey
    ELSE IF ParseThrows(st[AUTH_SESSION]) THEN baseKey
    ELSE Suffixed(baseKey, SessionSuffix(ParseObject(st[AUTH_SESSION])))

----------------------------------------------------------------------------
(* The record of the last operation *)

NoOp ==
    [op |-> "none", userId |-> << >>, base |-> << >>, key |-> << >>, id |-> << >>,
     obj |-> EmptyObj, objs |-> << >>, str |-> << >>, flag |-> FALSE,
     threw |-> FALSE]

Call(op, userId) == [NoOp EXCEPT !.op = op, !.userId = userId]

\* new Date().toISOString(): the clock is the environment's
Clock == {<<"2026-01-01T00:00:00.000Z">>, <<"2026-01-02T00:00:00.000Z">>}

----------------------------------------------------------------------------
(* Inputs *)

Phone1 == <<"+", "9", "1", "1", "2", "3", "4", "5", "6", "7", "8", "9", "0">>
Phone2 == <<"+", "9", "2">>
PlusOnly == <<"+">>
Phones == {Phone1, Phone2, PlusOnly}

NoUser == << >>
User1 == <<"9", "2">>
User2 == <<"u", "7">>
UserIds == {NoUser, User1, User2}

\* texts a session key can hold that authService did not write
ForeignSessions ==
    {RawText(<<"not json">>),
     StringifyObject([timestamp |-> <<"2026-01-01T00:00:00.000Z">>])}

----------------------------------------------------------------------------
(* authService *)

authService_saveSession(phone) ==
    /\ \E now \in Clock :
          store' = IF windowDefined
                   THEN setItem(store, AUTH_SESSION,
                                StringifyObject([phone |-> phone, timestamp |-> now]))
                   ELSE store
    /\ prev' = store
    /\ last' = [Call("authService.saveSession", NoUser) EXCEPT !.str = phone]
    /\ UNCHANGED <<windowDefined, sessionStore, saves, tabs, writes, ui>>

UnlockKey(phone) == <<"app_unlocked">> \o <<"_">> \o StripPlus(phone)

\* getSession parses the stored text; session.phone.replace throws when the
\* parsed record has no phone
authService_clearSession ==
    LET present == windowDefined /\ Present(store, AUTH_SESSION)
        throws == present /\ (\/ ParseThrows(store[AUTH_SESSION])
                              \/ "phone" \notin DOMAIN ParseObject(store[AUTH_SESSION]))
    IN  /\ store' = IF windowDefined /\ ~throws
                     THEN removeItem(store, AUTH_SESSION) ELSE store
        /\ sessionStore' = IF present /\ ~throws
                            THEN sessionStore \ {UnlockKey(ParseObject(store[AUTH_SESSION]).phone)}
                            ELSE sessionStore
        /\ prev' = store
        /\ last' = [Call("authService.clearSession", NoUser) EXCEPT !.threw = throws]
        /\ UNCHANGED <<windowDefined, saves, tabs, writes, ui>>

\* the environment writes the session key out of band
ExternalWriteSession(text) ==
    /\ windowDefined
    /\ store' = setItem(store, AUTH_SESSION, text)
    /\ prev' = store
    /\ last' = Call("external.write", NoUser)
    /\ UNCHANGED <<windowDefined, sessionStore, saves, tabs, writes, ui>>

\* one application of getUserKey, as every per-user operation makes it
DeriveKey(baseKey, userId) ==
    /\ prev' = store
    /\ last' = [Call("getUserKey", userId) EXCEPT
                   !.base = baseKey,
                   !.key = getUserKey(windowDefined, store, baseKey, userId)]
    /\ UNCHANGED <<windowDefined, store, sessionStore, saves, tabs, writes, ui>>

authService_getSession ==
    LET throws == windowDefined /\ Present(store, AUTH_SESSION)
                      /\ ParseThrows(store[AUTH_SESSION])
        found == windowDefined /\ Present(store, AUTH_SESSION) /\ ~throws
    IN  /\ prev' = store
        /\ last' = [Call("authService.getSession", NoUser) EXCEPT
                       !.base = AUTH_SESSION, !.key = AUTH_SESSION, !.threw = throws,
                       !.flag = found,
                       !.obj = IF found THEN ParseObject(store[AUTH_SESSION])
                               ELSE EmptyObj,
                       !.str = IF found \/ throws THEN << >> ELSE NULL]
        /\ UNCHANGED <<windowDefined, store, sessionStore, saves, tabs, writes, ui>>

----------------------------------------------------------------------------
(* onboardingService *)

onboardingService_markComplete ==
    /\ store' = IF windowDefined
                 THEN setItem(store, ONBOARDING_COMPLETE, RawText(<<"true">>))
                 ELSE store
    /\ prev' = store
    /\ last' = [Call("onboardingService.markComplete", NoUser) EXCEPT
                   !.base = ONBOARDING_COMPLETE, !.key = ONBOARDING_COMPLETE]
    /\ UNCHANGED <<windowDefined, sessionStore, saves, tabs, writes, ui>>

\* localStorage.getItem(ONBOARDING_COMPLETE) === 'true'
onboardingService_isComplete ==
    /\ prev' = store
    /\ last' = [Call("onboardingService.isComplete", NoUser) EXCEPT
                   !.base = ONBOARDING_COMPLETE, !.key = ONBOARDING_COMPLETE,
                   !.flag = /\ windowDefined
                            /\ Has(store, ONBOARDING_COMPLETE)
                            /\ store[ONBOARDING_COMPLETE] = RawText(<<"true">>)]
    /\ UNCHANGED <<windowDefined, store, sessionStore, saves, tabs, writes, ui>>

onboardingService_reset ==
    /\ store' = IF windowDefined THEN removeItem(store, ONBOARDING_COMPLETE) ELSE store
    /\ prev' = store
    /\ last' = [Call("onboardingService.reset", NoUser) EXCEPT
                   !.base = ONBOARDING_COMPLETE, !.key = ONBOARDING_COMPLETE]
    /\ UNCHANGED <<windowDefined, sessionStore, saves, tabs, writes, ui>>

----------------------------------------------------------------------------
(* pinService *)

Pins == {<<"1", "2", "3", "4">>, <<"0", "0", "0", "0">>, << >>}

\* userId ? `${STORAGE_KEYS.PIN}_${userId}` : STORAGE_KEYS.PIN
PinKey(userId) == IF userId # << >> THEN Suffixed(PIN, userId) ELSE PIN

PinCall(op, userId) == [Call(op, userId) EXCEPT !.base = PIN, !.key = PinKey(userId)]

pinService_save(pin, userId) ==
    /\ store' = IF windowDefined THEN setItem(store, PinKey(userId), RawText(pin))
                 ELSE store
    /\ prev' = store
    /\ last' = [PinCall("pinService.save", userId) EXCEPT !.str = pin]
    /\ UNCHANGED <<windowDefined, sessionStore, saves, tabs, writes, ui>>

\* savedPin === pin, where getItem gives null for an absent key
pinService_verify(pin, userId) ==
    /\ prev' = store
    /\ last' = [PinCall("pinService.verify", userId) EXCEPT
                   !.str = pin,
                   !.flag = /\ windowDefined
                            /\ Has(store, PinKey(userId))
                            /\ store[PinKey(userId)].str = pin]
    /\ UNCHANGED <<windowDefined, store, sessionStore, saves, tabs, writes, ui>>

pinService_exists(userId) ==
    /\ prev' = store
    /\ last' = [PinCall("pinService.exists", userId) EXCEPT
                   !.flag = windowDefined /\ Present(store, PinKey(userId))]
    /\ UNCHANGED <<windowDefined, store, sessionStore, saves, tabs, writes, ui>>

pinService_remove(userId) ==
    /\ store' = IF windowDefined THEN removeItem(store, PinKey(userId)) ELSE store
    /\ prev' = store
    /\ last' = PinCall("pinService.remove", userId)
    /\ UNCHANGED <<windowDefined, sessionStore, saves, tabs, writes, ui>>

pinService_get(userId) ==
    /\ prev' = store
    /\ last' = [PinCall("pinService.get", userId) EXCEPT
                   !.str = IF windowDefined /\ Has(store, PinKey(userId))
                           THEN store[PinKey(userId)].str ELSE NULL]
    /\ UNCHANGED <<windowDefined, store, sessionStore, saves, tabs, writes, ui>>

PinOps == {"pinService.save", "pinService.verify", "pinService.exists",
           "pinService.remove", "pinService.get"}

----------------------------------------------------------------------------
(* Collections: the read every service's getAll makes *)

\* (faulty variant) a text that is not JSON is read as an empty collection
ReadThrows_Never(win, st, key) == FALSE

\* (faulty variant) the read of an absent key raises too
ReadThrows_OnAbsent(win, st, key) ==
    win /\ (~Has(st, key) \/ (Truthy(st[key]) /\ ParseThrows(st[key])))

\* JSON.parse of the stored text throws
ReadThrows(win, st, key) == win /\ Present(st, key) /\ ParseThrows(st[key])

\* data ? JSON.parse(data) : []
ReadArray(win, st, key) ==
    IF win /\ Present(st, key) THEN ParseArray(st[key]) ELSE << >>

----------------------------------------------------------------------------
(* downloadService *)

DOWNLOAD_LIMIT == 50
MaxSaves == 52

\* the k-th DownloadRecord a caller saves
Download(k) ==
    [id |-> <<"download", ToString(k)>>, filename |-> <<"transactions.csv">>,
     format |-> <<"csv">>, fileSize |-> <<"2048">>]

DeleteIds == {<<"download", "51">>, <<"download", "0">>}

NoSaves == [k \in {} |-> [n |-> 0, clean |-> TRUE]]
SavesOf(key) == IF key \in DOMAIN saves THEN saves[key] ELSE [n |-> 0, clean |-> TRUE]
SetSaves(key, h) ==
    [k \in (DOMAIN saves) \cup {key} |-> IF k = key THEN h ELSE saves[k]]

downloadService_getAll(win, st, userId) ==
    ReadArray(win, st, getUserKey(win, st, DOWNLOADS, userId))

\* (faulty variant) the download is appended, so the slice keeps the oldest
Unshift_Push(downloads, download) == Append(downloads, download)

\* downloads.unshift(download)
Unshift(downloads, download) == <<download>> \o downloads

\* (faulty variant) nothing is cut off
Limited_NoLimit(downloads) == downloads

\* downloads.slice(0, 50)
Limited(downloads) ==
    SubSeq(downloads, 1, IF Len(downloads) < DOWNLOAD_LIMIT THEN Len(downloads)
                         ELSE DOWNLOAD_LIMIT)

downloadService_save(userId) ==
    LET key == getUserKey(windowDefined, store, DOWNLOADS, userId)
        throws == ReadThrows(windowDefined, store, key)
        download == Download(SavesOf(key).n + 1)
        downloads == Unshift(downloadService_getAll(windowDefined, store, userId), download)
        limited == Limited(downloads)
        written == windowDefined /\ ~throws
    IN  /\ SavesOf(key).n < MaxSaves
        /\ store' = IF written THEN setItem(store, key, StringifyArray(limited)) ELSE store
        /\ saves' = IF written
                     THEN SetSaves(key, [SavesOf(key) EXCEPT !.n = @ + 1])
                     ELSE saves
        /\ prev' = store
        /\ last' = [Call("downloadService.save", userId) EXCEPT
                       !.base = DOWNLOADS, !.key = key, !.obj = download,
                       !.threw = throws]
        /\ UNCHANGED <<windowDefined, sessionStore, tabs, writes, ui>>

downloadService_getAll_call(userId) ==
    LET key == getUserKey(windowDefined, store, DOWNLOADS, userId)
        throws == ReadThrows(windowDefined, store, key)
    IN  /\ prev' = store
        /\ last' = [Call("downloadService.getAll", userId) EXCEPT
                       !.base = DOWNLOADS, !.key = key, !.threw = throws,
                       !.objs = IF throws THEN << >>
                                ELSE downloadService_getAll(windowDefined, store, userId)]
        /\ UNCHANGED <<windowDefined, store, sessionStore, saves, tabs, writes, ui>>

downloadService_delete(id, userId) ==
    LET key == getUserKey(windowDefined, store, DOWNLOADS, userId)
        throws == ReadThrows(windowDefined, store, key)
        downloads == downloadService_getAll(windowDefined, store, userId)
        filtered == SelectSeq(downloads, LAMBDA d : d.id # id)
        written == windowDefined /\ ~throws
    IN  /\ store' = IF written THEN setItem(store, key, StringifyArray(filtered)) ELSE store
        /\ saves' = IF written /\ filtered # downloads
                     THEN SetSaves(key, [SavesOf(key) EXCEPT !.clean = FALSE])
                     ELSE saves
        /\ prev' = store
        /\ last' = [Call("downloadService.delete", userId) EXCEPT
                       !.base = DOWNLOADS, !.key = key, !.id = id, !.threw = throws]
        /\ UNCHANGED <<windowDefined, sessionStore, tabs, writes, ui>>

downloadService_clear(userId) ==
    LET key == getUserKey(windowDefined, store, DOWNLOADS, userId)
    IN  /\ store' = IF windowDefined THEN removeItem(store, key) ELSE store
        /\ saves' = IF windowDefined THEN SetSaves(key, [n |-> 0, clean |-> TRUE])
                     ELSE saves
        /\ prev' = store
        /\ last' = [Call("downloadService.clear", userId) EXCEPT
                       !.base = DOWNLOADS, !.key = key]
        /\ UNCHANGED <<windowDefined, sessionStore, tabs, writes, ui>>

----------------------------------------------------------------------------
(* categoryService *)

\* String.prototype.toLowerCase on the letters category names are drawn from
LowerChar(c) ==
    CASE c = "F" -> "f"
      [] c = "O" -> "o"
      [] c = "S" -> "s"
      [] c = "H" -> "h"
      [] OTHER -> c

toLowerCase(str) == [i \in 1..Len(str) |-> LowerChar(str[i])]

CategoryNames == {<<"F", "o">>, <<"f", "o">>, <<"F", "O">>, <<"S", "h">>}

\* (faulty variant) the names are compared as they are
SameName_Exact(a, b) == a = b

\* c.name.toLowerCase() === categoryName.toLowerCase()
SameName(a, b) == toLowerCase(a) = toLowerCase(b)

\* categories.find(...) finds an entry
FindsCategory(categories, categoryName) ==
    \E i \in 1..Len(categories) : SameName(categories[i].name, categoryName)

categoryService_getAll(win, st, userId) ==
    ReadArray(win, st, getUserKey(win, st, CATEGORIES, userId))

categoryService_add(categoryName, userId) ==
    LET key == getUserKey(windowDefined, store, CATEGORIES, userId)
        throws == ReadThrows(windowDefined, store, key)
        categories == categoryService_getAll(windowDefined, store, userId)
        written == windowDefined /\ ~throws /\ ~FindsCategory(categories, categoryName)
    IN  /\ \E now \in Clock :
              store' = IF written
                       THEN setItem(store, key, StringifyArray(
                                Append(categories, [name |-> categoryName, createdAt |-> now])))
                       ELSE store
        /\ prev' = store
        /\ last' = [Call("categoryService.add", userId) EXCEPT
                       !.base = CATEGORIES, !.key = key, !.str = categoryName,
                       !.threw = throws]
        /\ UNCHANGED <<windowDefined, sessionStore, saves, tabs, writes, ui>>

\* (faulty variant) the names are compared in lower case, as add compares them
KeptOnRemove_IgnoringCase(category, categoryName) ==
    toLowerCase(category.name) # toLowerCase(categoryName)

\* c.name !== categoryName
KeptOnRemove(category, categoryName) == category.name # categoryName

categoryService_remove(categoryName, userId) ==
    LET key == getUserKey(windowDefined, store, CATEGORIES, userId)
        throws == ReadThrows(windowDefined, store, key)
        categories == categoryService_getAll(windowDefined, store, userId)
        filtered == SelectSeq(categories, LAMBDA c : KeptOnRemove(c, categoryName))
    IN  /\ store' = IF windowDefined /\ ~throws
                     THEN setItem(store, key, StringifyArray(filtered)) ELSE store
        /\ prev' = store
        /\ last' = [Call("categoryService.remove", userId) EXCEPT
                       !.base = CATEGORIES, !.key = key, !.str = categoryName,
                       !.threw = throws]
        /\ UNCHANGED <<windowDefined, sessionStore, saves, tabs, writes, ui>>

categoryService_getAll_call(userId) ==
    LET key == getUserKey(windowDefined, store, CATEGORIES, userId)
        throws == ReadThrows(windowDefined, store, key)
    IN  /\ prev' = store
        /\ last' = [Call("categoryService.getAll", userId) EXCEPT
                       !.base = CATEGORIES, !.key = key, !.threw = throws,
                       !.objs = IF throws THEN << >>
                                ELSE categoryService_getAll(windowDefined, store, userId)]
        /\ UNCHANGED <<windowDefined, store, sessionStore, saves, tabs, writes, ui>>

\* getAll(userId).map(c => c.name): the names, one object per name
categoryService_getNames(userId) ==
    LET key == getUserKey(windowDefined, store, CATEGORIES, userId)
        throws == ReadThrows(windowDefined, store, key)
        categories == categoryService_getAll(windowDefined, store, userId)
    IN  /\ prev' = store
        /\ last' = [Call("categoryService.getNames", userId) EXCEPT
                       !.base = CATEGORIES, !.key = key, !.threw = throws,
                       !.objs = IF throws THEN << >>
                                ELSE [i \in 1..Len(categories) |->
                                         [name |-> categories[i].name]]]
        /\ UNCHANGED <<windowDefined, store, sessionStore, saves, tabs, writes, ui>>

----------------------------------------------------------------------------
(* transactionService *)

MaxTxns == 2

Date1 == <<"2026-01-10T09:30:00.000Z">>
Date2 == <<"2026-02-20T18:00:00.000Z">>

\* Transactions a caller passes: one with every property set; one with an
\* optional property left out and one set to undefined; one that uses an id a
\* second time, with an amount that is not a finite number
TxnA ==
    [id |-> <<"t1">>, description |-> <<"Payment to Amazon">>, amount |-> <<"100">>,
     category |-> <<"Shopping">>, date |-> Date1, recipient |-> <<"Amazon">>,
     type |-> <<"debit">>]
TxnB ==
    [id |-> <<"t2">>, description |-> <<"Refund from Uber">>, amount |-> <<"250">>,
     category |-> <<"Travel">>, date |-> Date2, recipient |-> UNDEFINED]
TxnC ==
    [id |-> <<"t1">>, description |-> <<"Transfer to Ola">>, amount |-> NAN,
     category |-> <<"Travel">>, date |-> Date2]

Txns == {TxnA, TxnB, TxnC}
TxnLists == {<< >>, <<TxnA, TxnB>>, <<TxnC, TxnA>>}
TxnIds == {<<"t1">>, <<"t2">>, <<"t9">>}

\* Partial<Transaction> patches
Patches ==
    {[category |-> <<"Bills">>, recipient |-> <<"Flipkart">>],
     [type |-> UNDEFINED]}

TxnUsers == {NoUser, User1}

\* the transactions stored under all the keys of TxnUsers together
RECURSIVE SumLen(_, _, _)
SumLen(win, st, users) ==
    IF users = {} THEN 0
    ELSE LET u == CHOOSE x \in users : TRUE
         IN  Len(ReadArray(win, st, getUserKey(win, st, TRANSACTIONS, u)))
                 + SumLen(win, st, users \ {u})

transactionService_getAll(win, st, userId) ==
    ReadArray(win, st, getUserKey(win, st, TRANSACTIONS, userId))

\* (faulty variant) the transaction is put first
Push_Front(transactions, transaction) == <<transaction>> \o transactions

\* transactions.push(transaction)
Push(transactions, transaction) == Append(transactions, transaction)

transactionService_save(transaction, userId) ==
    LET key == getUserKey(windowDefined, store, TRANSACTIONS, userId)
        throws == ReadThrows(windowDefined, store, key)
        transactions == Push(transactionService_getAll(windowDefined, store, userId),
                             transaction)
    IN  /\ SumLen(windowDefined, store, TxnUsers) < MaxTxns
        /\ store' = IF windowDefined /\ ~throws
                     THEN setItem(store, key, StringifyArray(transactions)) ELSE store
        /\ prev' = store
        /\ last' = [Call("transactionService.save", userId) EXCEPT
                       !.base = TRANSACTIONS, !.key = key, !.obj = transaction,
                       !.threw = throws]
        /\ UNCHANGED <<windowDefined, sessionStore, saves, tabs, writes, ui>>

transactionService_saveMany(transactions, userId) ==
    LET key == getUserKey(windowDefined, store, TRANSACTIONS, userId)
    IN  /\ SumLen(windowDefined, store, TxnUsers \ {userId}) + Len(transactions) <= MaxTxns
        /\ store' = IF windowDefined
                     THEN setItem(store, key, StringifyArray(transactions)) ELSE store
        /\ prev' = store
        /\ last' = [Call("transactionService.saveMany", userId) EXCEPT
                       !.base = TRANSACTIONS, !.key = key, !.objs = transactions]
        /\ UNCHANGED <<windowDefined, sessionStore, saves, tabs, writes, ui>>

\* transactions.findIndex(t => t.id === id), counted from 1; 0 stands for -1
FindIndex(transactions, id) ==
    IF \E i \in 1..Len(transactions) : transactions[i].id = id
    THEN CHOOSE i \in 1..Len(transactions) :
            /\ transactions[i].id = id
            /\ \A j \in 1..(i - 1) : transactions[j].id # id
    ELSE 0

\* (faulty variant) the collection is rewritten whether or not the id was found
Found_Always(index) == TRUE

\* index !== -1
Found(index) == index # 0

\* (faulty variant) the patch replaces the transaction
Merge_Replace(transaction, updates) == updates

\* { ...transaction, ...updates }
Merge(transaction, updates) ==
    [k \in (DOMAIN transaction) \cup (DOMAIN updates) |->
        IF k \in DOMAIN updates THEN updates[k] ELSE transaction[k]]

\* transactions[index] = value; an index of -1 sets no element of the array
SetAt(transactions, index, value) ==
    [i \in 1..Len(transactions) |-> IF i = index THEN value ELSE transactions[i]]

transactionService_update(id, updates, userId) ==
    LET key == getUserKey(windowDefined, store, TRANSACTIONS, userId)
        throws == ReadThrows(windowDefined, store, key)
        transactions == transactionService_getAll(windowDefined, store, userId)
        index == FindIndex(transactions, id)
        merged == Merge(IF index = 0 THEN EmptyObj ELSE transactions[index], updates)
    IN  /\ store' = IF windowDefined /\ ~throws /\ Found(index)
                     THEN setItem(store, key,
                                  StringifyArray(SetAt(transactions, index, merged)))
                     ELSE store
        /\ prev' = store
        /\ last' = [Call("transactionService.update", userId) EXCEPT
                       !.base = TRANSACTIONS, !.key = key, !.id = id, !.obj = updates,
                       !.threw = throws]
        /\ UNCHANGED <<windowDefined, sessionStore, saves, tabs, writes, ui>>

\* (faulty variant) the transactions with the id are the ones kept
KeptOnDelete_Inverted(transaction, id) == transaction.id = id

\* t.id !== id
KeptOnDelete(transaction, id) == transaction.id # id

transactionService_delete(id, userId) ==
    LET key == getUserKey(windowDefined, store, TRANSACTIONS, userId)
        throws == ReadThrows(windowDefined, store, key)
        transactions == transactionService_getAll(windowDefined, store, userId)
        filtered == SelectSeq(transactions, LAMBDA t : KeptOnDelete(t, id))
    IN  /\ store' = IF windowDefined /\ ~throws
                     THEN setItem(store, key, StringifyArray(filtered)) ELSE store
        /\ prev' = store
        /\ last' = [Call("transactionService.delete", userId) EXCEPT
                       !.base = TRANSACTIONS, !.key = key, !.id = id, !.threw = throws]
        /\ UNCHANGED <<windowDefined, sessionStore, saves, tabs, writes, ui>>

transactionService_getAll_call(userId) ==
    LET key == getUserKey(windowDefined, store, TRANSACTIONS, userId)
        throws == ReadThrows(windowDefined, store, key)
    IN  /\ prev' = store
        /\ last' = [Call("transactionService.getAll", userId) EXCEPT
                       !.base = TRANSACTIONS, !.key = key, !.threw = throws,
                       !.objs = IF throws THEN << >>
                                ELSE transactionService_getAll(windowDefined, store, userId)]
        /\ UNCHANGED <<windowDefined, store, sessionStore, saves, tabs, writes, ui>>

----------------------------------------------------------------------------
(* transactionService: the filters *)

\* new Date(string).getTime() for the strings used here, in minutes since
\* 2026-01-01T00:00Z: a date-only string is midnight UTC, and one instant
\* has more than one spelling.  A string outside the table is not a date:
\* its time value is NaN.
TimeTable ==
    (Date1 :> 13530) @@ (Date2 :> 73080)
    @@ (<<"2026-01-10">> :> 12960)
    @@ (<<"2026-01-10T15:00:00.000+05:30">> :> 13530)
    @@ (<<"2026-03-01">> :> 84960)

IsDate(string) == string \in DOMAIN TimeTable
TimeValue(string) == TimeTable[string]

\* the dates a caller passes as the ends of a range
RangeDates ==
    { Date1, <<"2026-01-10">>, <<"2026-01-10T15:00:00.000+05:30">>, Date2,
      <<"2026-03-01">>, <<"soon">> }

\* a transaction whose date is not a date, in a category that differs from
\* TxnA's by letter case only
TxnD ==
    [id |-> <<"t4">>, description |-> <<"Purchase at Zara">>, amount |-> <<"900">>,
     category |-> <<"shopping">>, date |-> <<"10th of Jan">>, type |-> <<"debit">>]

FilterCategories == {<<"Shopping">>, <<"shopping">>, <<"Travel">>, <<"Bills">>}

\* t.category === category
HasCategory(t, category) == "category" \in DOMAIN t /\ t["category"] = category

transactionService_getByCategory(category, userId) ==
    LET key == getUserKey(windowDefined, store, TRANSACTIONS, userId)
        throws == ReadThrows(windowDefined, store, key)
        transactions == transactionService_getAll(windowDefined, store, userId)
    IN  /\ prev' = store
        /\ last' = [Call("transactionService.getByCategory", userId) EXCEPT
                       !.base = TRANSACTIONS, !.key = key, !.str = category,
                       !.threw = throws,
                       !.objs = IF throws THEN << >>
                                ELSE SelectSeq(transactions,
                                               LAMBDA t : HasCategory(t, category))]
        /\ UNCHANGED <<windowDefined, store, sessionStore, saves, tabs, writes, ui>>

\* (faulty variant) the end of the range is excluded
InRange_EndExcluded(t, startDate, endDate) ==
    /\ "date" \in DOMAIN t
    /\ IsDate(t["date"]) /\ IsDate(startDate) /\ IsDate(endDate)
    /\ TimeValue(t["date"]) >= TimeValue(startDate)
    /\ TimeValue(t["date"]) < TimeValue(endDate)

\* date >= new Date(startDate) && date <= new Date(endDate), on time values;
\* a comparison with NaN is false
InRange(t, startDate, endDate) ==
    /\ "date" \in DOMAIN t
    /\ IsDate(t["date"]) /\ IsDate(startDate) /\ IsDate(endDate)
    /\ TimeValue(t["date"]) >= TimeValue(startDate)
    /\ TimeValue(t["date"]) <= TimeValue(endDate)

transactionService_getByDateRange(startDate, endDate, userId) ==
    LET key == getUserKey(windowDefined, store, TRANSACTIONS, userId)
        throws == ReadThrows(windowDefined, store, key)
        transactions == transactionService_getAll(windowDefined, store, userId)
    IN  /\ prev' = store
        /\ last' = [Call("transactionService.getByDateRange", userId) EXCEPT
                       !.base = TRANSACTIONS, !.key = key,
                       !.obj = [startDate |-> startDate, endDate |-> endDate],
                       !.threw = throws,
                       !.objs = IF throws THEN << >>
                                ELSE SelectSeq(transactions,
                                               LAMBDA t : InRange(t, startDate, endDate))]
        /\ UNCHANGED <<windowDefined, store, sessionStore, saves, tabs, writes, ui>>

----------------------------------------------------------------------------
(* generateSimulatedTransactions and initializeData *)

\* generateSimulatedTransactions(50)
GENERATED_COUNT == 50

\* the templates of the specific transactions
SPECIFIC_TEMPLATES == 10

\* Math.random() is the environment's: a seed stands for one run of draws
Seeds == {1, 2}

\* Math.floor(Math.random() * n), the draw made for item i
Random(seed, i, n) == (seed * 31 + i * 17 + i * i) % n

GeneratorCategories ==
    << <<"Food & Dining">>, <<"Shopping">>, <<"Transportation">>,
       <<"Bills & Utilities">>, <<"Entertainment">>, <<"Healthcare">>,
       <<"Education">>, <<"Travel">>, <<"Groceries">>, <<"Personal Care">>,
       <<"Gifts">>, <<"Insurance">>, <<"Investment">>, <<"Savings">> >>

\* the time of a generated date, in minutes from the midnight that begins
\* today: daysAgo days back, at a drawn hour and minute
DrawnTime(seed, i) ==
    Random(seed, i + 3, 24) * 60 + Random(seed, i + 5, 60) - Random(seed, i, 90) * 1440

\* the transaction pushed by the loop for i
RandomTransaction(seed, now, i) ==
    [id |-> <<"txn", now, ToString(i)>>,
     description |-> <<"Payment to", ToString(Random(seed, i + 1, 18))>>,
     amount |-> <<ToString(Random(seed, i + 2, 50000) + 100)>>,
     category |-> GeneratorCategories[Random(seed, i + 4, 14) + 1],
     date |-> <<"today", ToString(DrawnTime(seed, i))>>,
     recipient |-> <<"merchant", ToString(Random(seed, i + 1, 18))>>,
     type |-> IF Random(seed, i + 6, 10) > 0 THEN <<"debit">> ELSE <<"credit">>,
     time |-> DrawnTime(seed, i)]

\* Math.floor(Math.random() * 6) + 5 templates are used, at most one per item
SpecificCount(seed, count) ==
    LET drawn == Random(seed, 0, 6) + 5
    IN  IF drawn < count THEN drawn ELSE count

\* the index replaced by the specific transaction k: the draws of distinct
\* indices
SpecificIndex(seed, count, k) == (seed * 7 + k * 11) % count

\* the specific transaction k, dated like a random one
SpecificTransaction(seed, now, k) ==
    [id |-> <<"txn_specific", now, ToString(k)>>,
     description |-> <<"specific", ToString(Random(seed, k, SPECIFIC_TEMPLATES))>>,
     amount |-> <<"amount of", ToString(Random(seed, k, SPECIFIC_TEMPLATES))>>,
     category |-> <<"category of", ToString(Random(seed, k, SPECIFIC_TEMPLATES))>>,
     date |-> <<"today", ToString(DrawnTime(seed, k + 50))>>,
     recipient |-> <<"recipient of", ToString(Random(seed, k, SPECIFIC_TEMPLATES))>>,
     type |-> <<"type of", ToString(Random(seed, k, SPECIFIC_TEMPLATES))>>,
     time |-> DrawnTime(seed, k + 50)]

\* the array before the sort
Unsorted(seed, now, count) ==
    LET specific == SpecificCount(seed, count)
        replaced == {SpecificIndex(seed, count, k) : k \in 0..(specific - 1)}
    IN  [j \in 1..count |->
            IF j - 1 \in replaced
            THEN SpecificTransaction(seed, now,
                     CHOOSE k \in 0..(specific - 1) :
                         SpecificIndex(seed, count, k) = j - 1)
            ELSE RandomTransaction(seed, now, j - 1)]

\* the place the element j takes in the array sorted newest first, given
\* the times of the elements; elements of equal time keep their order
Rank(times, j) ==
    Cardinality({k \in 1..Len(times) :
                    \/ times[k] > times[j]
                    \/ times[k] = times[j] /\ k < j}) + 1

\* transactions.sort((a, b) => new Date(b.date).getTime() - new Date(a.date).getTime())
SortedNewestFirst(ts) ==
    LET items == SubSeq(ts, 1, Len(ts))
        times == SubSeq([j \in 1..Len(items) |-> items[j].time], 1, Len(items))
        rank == SubSeq([j \in 1..Len(items) |-> Rank(times, j)], 1, Len(items))
    IN  [r \in 1..Len(items) |-> items[CHOOSE j \in 1..Len(items) : rank[j] = r]]

\* the Transaction of a generated item (its time is the date's)
AsTransaction(t) == [f \in (DOMAIN t) \ {"time"} |-> t[f]]

generateSimulatedTransactions(seed, now, count) ==
    LET sorted == SortedNewestFirst(Unsorted(seed, now, count))
    IN  [j \in 1..count |-> AsTransaction(sorted[j])]

\* Date.now() as it appears in a generated id
Nows == {"1767225600000", "1767312000000"}

DefaultCategories ==
    << <<"Food & Dining">>, <<"Shopping">>, <<"Transportation">>,
       <<"Bills & Utilities">>, <<"Entertainment">>, <<"Healthcare">>,
       <<"Education">>, <<"Travel">>, <<"Groceries">> >>

\* the store after categoryService.add(categoryName, userId)
CategoryAdded(win, st, categoryName, userId, now) ==
    LET key == getUserKey(win, st, CATEGORIES, userId)
        categories == categoryService_getAll(win, st, userId)
    IN  IF win /\ ~FindsCategory(categories, categoryName)
        THEN setItem(st, key, StringifyArray(
                 Append(categories, [name |-> categoryName, createdAt |-> now])))
        ELSE st

\* (faulty variant) the defaults are added to a collection that has entries
NeedsDefaults_Always(categories) == TRUE

\* categoryService.getAll(userId).length === 0
NeedsDefaults(categories) == Len(categories) = 0

\* the store after defaultCategories.forEach(cat => categoryService.add(cat, userId))
RECURSIVE AllAdded(_, _, _, _, _)
AllAdded(win, st, names, userId, now) ==
    IF names = << >> THEN st
    ELSE AllAdded(win, CategoryAdded(win, st, Head(names), userId, now),
                  Tail(names), userId, now)

\* the store after initializeData(userId); the nine adds are taken to read
\* one time from the clock
Initialized(win, st, userId, seed, stamp, now) ==
    LET tkey == getUserKey(win, st, TRANSACTIONS, userId)
        ckey == getUserKey(win, st, CATEGORIES, userId)
        st1 == IF Len(transactionService_getAll(win, st, userId)) = 0
               THEN setItem(st, tkey, StringifyArray(
                        generateSimulatedTransactions(seed, stamp, GENERATED_COUNT)))
               ELSE st
    IN  IF ~win \/ ReadThrows(win, st, tkey) THEN st
        ELSE IF ReadThrows(win, st, ckey) THEN st1
        ELSE IF NeedsDefaults(categoryService_getAll(win, st1, userId))
             THEN AllAdded(win, st1, DefaultCategories, userId, now)
             ELSE st1

initializeData(userId) ==
    LET tkey == getUserKey(windowDefined, store, TRANSACTIONS, userId)
        ckey == getUserKey(windowDefined, store, CATEGORIES, userId)
    IN  /\ \E seed \in Seeds, stamp \in Nows, now \in Clock :
              store' = Initialized(windowDefined, store, userId, seed, stamp, now)
        /\ prev' = store
        /\ last' = [Call("initializeData", userId) EXCEPT
                       !.base = TRANSACTIONS, !.key = tkey, !.str = ckey,
                       !.threw = \/ ReadThrows(windowDefined, store, tkey)
                                 \/ ReadThrows(windowDefined, store, ckey)]
        /\ UNCHANGED <<windowDefined, sessionStore, saves, tabs, writes, ui>>

----------------------------------------------------------------------------
(* userService *)

Profiles ==
    { [phone |-> Phone2, name |-> <<"Asha">>],
      [phone |-> UNDEFINED, name |-> <<"Ravi">>] }

ProfilePatches == { [name |-> <<"Mira">>], [email |-> UNDEFINED] }

\* profile.phone?.replace(/\+/g, ''): undefined when there is no phone
PhoneOf(profile) ==
    IF "phone" \in DOMAIN profile /\ profile["phone"] \notin {UNDEFINED, NULL}
    THEN StripPlus(profile["phone"]) ELSE << >>

\* userId || profile.phone?.replace(/\+/g, '')
ProfileUser(profile, userId) == IF userId # << >> THEN userId ELSE PhoneOf(profile)

\* (faulty variant) saveProfile writes also where there is no window
SavedProfile_Unguarded(win, st, profile, userId, now) ==
    setItem(st, getUserKey(win, st, USER_PROFILE, ProfileUser(profile, userId)),
            StringifyObject(Merge(profile, [updatedAt |-> now])))

\* what saveProfile leaves in the store
SavedProfile(win, st, profile, userId, now) ==
    IF win
    THEN setItem(st, getUserKey(win, st, USER_PROFILE, ProfileUser(profile, userId)),
                 StringifyObject(Merge(profile, [updatedAt |-> now])))
    ELSE st

userService_saveProfile(profile, userId) ==
    /\ \E now \in Clock : store' = SavedProfile(windowDefined, store, profile, userId, now)
    /\ prev' = store
    /\ last' = [Call("userService.saveProfile", userId) EXCEPT
                   !.base = USER_PROFILE, !.obj = profile,
                   !.key = getUserKey(windowDefined, store, USER_PROFILE,
                                      ProfileUser(profile, userId))]
    /\ UNCHANGED <<windowDefined, sessionStore, saves, tabs, writes, ui>>

\* the profile getProfile returns, where it returns one
userService_getProfile(win, st, userId) ==
    ParseObject(st[getUserKey(win, st, USER_PROFILE, userId)])

userService_getProfile_call(userId) ==
    LET key == getUserKey(windowDefined, store, USER_PROFILE, userId)
        throws == ReadThrows(windowDefined, store, key)
        found == windowDefined /\ Present(store, key) /\ ~throws
    IN  /\ prev' = store
        /\ last' = [Call("userService.getProfile", userId) EXCEPT
                       !.base = USER_PROFILE, !.key = key, !.threw = throws,
                       !.flag = found,
                       !.obj = IF found THEN userService_getProfile(windowDefined, store,
                                                                    userId)
                               ELSE EmptyObj,
                       !.str = IF found \/ throws THEN << >> ELSE NULL]
        /\ UNCHANGED <<windowDefined, store, sessionStore, saves, tabs, writes, ui>>

\* no window guard of its own: getProfile returns null outside a browser
userService_updateProfile(updates, userId) ==
    LET key == getUserKey(windowDefined, store, USER_PROFILE, userId)
        throws == ReadThrows(windowDefined, store, key)
        found == windowDefined /\ Present(store, key) /\ ~throws
    IN  /\ \E now \in Clock :
              store' = IF found
                       THEN SavedProfile(windowDefined, store,
                                Merge(userService_getProfile(windowDefined, store, userId),
                                      updates),
                                userId, now)
                       ELSE store
        /\ prev' = store
        /\ last' = [Call("userService.updateProfile", userId) EXCEPT
                       !.base = USER_PROFILE, !.key = key, !.obj = updates,
                       !.threw = throws]
        /\ UNCHANGED <<windowDefined, sessionStore, saves, tabs, writes, ui>>

----------------------------------------------------------------------------
(* SetupPage *)

SETUP_DEFAULT_PHONE == <<"+", "9", "1", "9", "9", "9", "9", "9", "9", "9", "9", "9", "9">>

FirstNames == { <<"Asha">> }
Emails == { << >> }

\* session?.phone || "+919999999999"
SetupPhone(win, st) ==
    IF win /\ Present(st, AUTH_SESSION) /\ "phone" \in DOMAIN ParseObject(st[AUTH_SESSION])
          /\ ParseObject(st[AUTH_SESSION])["phone"] \notin {UNDEFINED, NULL, << >>}
    THEN ParseObject(st[AUTH_SESSION])["phone"]
    ELSE SETUP_DEFAULT_PHONE

\* the profile onSubmit builds from the form values
SetupProfile(win, st, firstName, email, now) ==
    [phone |-> SetupPhone(win, st),
     name |-> firstName,
     fullName |-> firstName \o <<" ">> \o <<"Rao">>,
     gender |-> <<"female">>,
     email |-> IF email # << >> THEN email ELSE UNDEFINED,
     createdAt |-> now]

\* onSubmit: getSession inside the try, then userService.saveProfile(profile)
\* with no user id; an error of getSession is caught and nothing is saved
SetupPage_onSubmit(firstName, email) ==
    LET throws == Present(store, AUTH_SESSION) /\ ParseThrows(store[AUTH_SESSION])
    IN  /\ windowDefined
        /\ \E created \in Clock, now \in Clock :
              LET profile == SetupProfile(windowDefined, store, firstName, email, created)
              IN  /\ store' = IF throws THEN store
                              ELSE SavedProfile(windowDefined, store, profile, NoUser, now)
                  /\ last' = [Call("SetupPage.onSubmit", NoUser) EXCEPT
                                 !.base = USER_PROFILE, !.obj = profile, !.threw = throws,
                                 !.key = getUserKey(windowDefined, store, USER_PROFILE,
                                                    ProfileUser(profile, NoUser))]
        /\ prev' = store
        /\ UNCHANGED <<windowDefined, sessionStore, saves, tabs, writes, ui>>

----------------------------------------------------------------------------
(* The environment *)

\* texts that are not JSON
MalformedTexts == { RawText(<<"not json">>), RawText(<< >>) }

\* a value is written under a key out of band (another program, the
\* developer tools)
ExternalWrite(key, text) ==
    /\ windowDefined
    /\ store' = setItem(store, key, text)
    /\ prev' = store
    /\ last' = [Call("external.write", NoUser) EXCEPT !.key = key]
    /\ UNCHANGED <<windowDefined, sessionStore, saves, tabs, writes, ui>>

----------------------------------------------------------------------------
(* Home *)

\* localStorage.getItem("auth_session")
HOME_SESSION_KEY == <<"auth_session">>

\* the effect Home runs on mount (effects run in a browser only)
Home_useEffect ==
    /\ windowDefined
    /\ route' = IF Present(store, HOME_SESSION_KEY) THEN "/unlock" ELSE "/onboarding"
    /\ prev' = store
    /\ last' = [Call("Home.useEffect", NoUser) EXCEPT !.key = HOME_SESSION_KEY]
    /\ UNCHANGED <<windowDefined, store, sessionStore, saves, tabs, writes,
                   pendingTransaction, showCategorizeDialog, simulated>>

----------------------------------------------------------------------------
(* NotificationSimulator *)

MaxSimulated == 3

\* what one click may draw: a specific business payment, a specific personal
\* one and a random personal one
Simulations ==
    { [amount |-> <<"4331">>, receiver |-> <<"Netflix">>,
       category |-> <<"Entertainment">>, isBusiness |-> TRUE],
      [amount |-> <<"2389">>, receiver |-> <<"Ravi Contractor">>,
       category |-> <<"Bills & Utilities">>, isBusiness |-> FALSE],
      [amount |-> <<"1500">>, receiver |-> <<"Ramesh Kumar">>,
       category |-> <<"Personal">>, isBusiness |-> FALSE] }

\* the categories the user may pick in the dialog
DialogCategories == {<<"Personal">>, <<"Entertainment">>}

\* Math.random().toString(36).substr(2, 9)
RandomSuffixes == {"k3x9q0a7z"}

\* session?.phone.replace(/\+/g, ''): undefined when there is no session
SessionUser(st) ==
    IF Present(st, AUTH_SESSION) THEN StripPlus(ParseObject(st[AUTH_SESSION])["phone"])
    ELSE << >>

\* something inside the try block of saveTransaction throws before the
\* category is looked up: the session does not parse or has no phone, or the
\* categories do not parse
SaveThrowsEarly(st) ==
    \/ /\ Present(st, AUTH_SESSION)
       /\ \/ ParseThrows(st[AUTH_SESSION])
          \/ "phone" \notin DOMAIN ParseObject(st[AUTH_SESSION])
    \/ ReadThrows(TRUE, st, getUserKey(TRUE, st, CATEGORIES, SessionUser(st)))

\* transactionService.save throws: the transactions do not parse
SaveThrowsLate(st) ==
    /\ ~SaveThrowsEarly(st)
    /\ ReadThrows(TRUE, st, getUserKey(TRUE, st, TRANSACTIONS, SessionUser(st)))

\* the store after saveTransaction(amount, receiver, category); what has been
\* written when something throws stays written
SavedTransaction(st, amount, receiver, category, now, suffix) ==
    LET userId == SessionUser(st)
        names == categoryService_getAll(TRUE, st, userId)
        st1 == IF \E i \in 1..Len(names) : SameName(names[i]["name"], category)
               THEN st
               ELSE CategoryAdded(TRUE, st, category, userId, now)
        transaction ==
            [id |-> <<"txn", now[1], suffix>>,
             description |-> <<"Payment to">> \o receiver,
             amount |-> amount, category |-> category, date |-> now,
             recipient |-> receiver, type |-> <<"debit">>]
        tkey == getUserKey(TRUE, st1, TRANSACTIONS, userId)
    IN  IF SaveThrowsEarly(st) THEN st
        ELSE IF SaveThrowsLate(st) THEN st1
        ELSE setItem(st1, tkey,
                     StringifyArray(Push(transactionService_getAll(TRUE, st1, userId),
                                         transaction)))

\* the transaction was saved
Saved(st) == ~SaveThrowsEarly(st) /\ ~SaveThrowsLate(st)

\* history: one more simulated transaction
Simulated(sim, count) ==
    [isBusiness |-> sim.isBusiness, amount |-> sim.amount, receiver |-> sim.receiver,
     saves |-> count, ended |-> IF sim.isBusiness THEN "click" ELSE ""]

\* history: the personal transactions that are pending end in this way
Ended(how, count) ==
    [n \in 1..Len(simulated) |->
        IF ~simulated[n].isBusiness /\ simulated[n].ended = ""
        THEN [simulated[n] EXCEPT !.ended = how, !.saves = @ + count]
        ELSE simulated[n]]

\* the click on "Simulate Transaction"
simulateTransaction(sim) ==
    /\ windowDefined
    /\ Len(simulated) < MaxSimulated
    /\ IF sim.isBusiness
       THEN /\ \E now \in Clock, suffix \in RandomSuffixes :
                  store' = SavedTransaction(store, sim.amount, sim.receiver,
                                            sim.category, now, suffix)
            /\ simulated' = Append(simulated,
                                   Simulated(sim, IF Saved(store) THEN 1 ELSE 0))
            /\ UNCHANGED <<pendingTransaction, showCategorizeDialog>>
       ELSE /\ pendingTransaction' = <<[amount |-> sim.amount, receiver |-> sim.receiver]>>
            /\ showCategorizeDialog' = TRUE
            /\ simulated' = Append(Ended("replaced", 0), Simulated(sim, 0))
            /\ UNCHANGED store
    /\ prev' = store
    /\ last' = [Call("NotificationSimulator.simulateTransaction", NoUser) EXCEPT
                   !.flag = sim.isBusiness]
    /\ UNCHANGED <<windowDefined, sessionStore, saves, tabs, writes, route>>

\* (faulty variant) the pending transaction is kept after it was categorized
AfterCategorized_Kept(pending) == pending

\* setPendingTransaction(null)
AfterCategorized(pending) == << >>

\* the dialog, rendered while there is a pending transaction, reports the
\* category the user picked
handleCategorized(category) ==
    /\ windowDefined
    /\ pendingTransaction # << >>
    /\ \E now \in Clock, suffix \in RandomSuffixes :
          store' = SavedTransaction(store, pendingTransaction[1].amount,
                                    pendingTransaction[1].receiver, category, now, suffix)
    /\ pendingTransaction' = AfterCategorized(pendingTransaction)
    /\ simulated' = IF AfterCategorized(pendingTransaction) = << >>
                    THEN Ended("categorized", IF Saved(store) THEN 1 ELSE 0)
                    ELSE [n \in 1..Len(simulated) |->
                            IF ~simulated[n].isBusiness /\ simulated[n].ended = ""
                            THEN [simulated[n] EXCEPT
                                     !.saves = @ + (IF Saved(store) THEN 1 ELSE 0)]
                            ELSE simulated[n]]
    /\ prev' = store
    /\ last' = [Call("NotificationSimulator.handleCategorized", NoUser) EXCEPT
                   !.str = category]
    /\ UNCHANGED <<windowDefined, sessionStore, saves, tabs, writes, route,
                   showCategorizeDialog>>

\* the dialog is dismissed
onDismiss ==
    /\ windowDefined
    /\ pendingTransaction # << >>
    /\ showCategorizeDialog' = FALSE
    /\ pendingTransaction' = << >>
    /\ simulated' = Ended("dismissed", 0)
    /\ prev' = store
    /\ last' = Call("NotificationSimulator.onDismiss", NoUser)
    /\ UNCHANGED <<windowDefined, store, sessionStore, saves, tabs, writes, route>>

----------------------------------------------------------------------------
(* transactionService.save called from two tabs on one localStorage.  A    *)
(* tab runs its call in two steps, the read (getAll) and the write         *)
(* (push, getUserKey, setItem); the other tab may run between them.        *)

Tabs == {1, 2}

Idle ==
    [pc |-> "idle", transaction |-> EmptyObj, userId |-> << >>,
     transactions |-> << >>, threw |-> FALSE]

OtherTab(tab) == CHOOSE other \in Tabs : other # tab

\* the call begins: the window guard, then const transactions = this.getAll(userId)
TabSaveRead(tab, transaction, userId) ==
    LET key == getUserKey(windowDefined, store, TRANSACTIONS, userId)
        throws == ReadThrows(windowDefined, store, key)
    IN  /\ tabs[tab].pc = "idle"
        /\ SumLen(windowDefined, store, TxnUsers) < MaxTxns
        /\ tabs' = [tabs EXCEPT ![tab] =
                      [pc |-> IF windowDefined /\ ~throws THEN "read" ELSE "done",
                       transaction |-> transaction, userId |-> userId,
                       transactions |-> transactionService_getAll(windowDefined, store,
                                                                  userId),
                       threw |-> throws]]
        /\ UNCHANGED <<windowDefined, store, sessionStore, prev, last, saves, writes, ui>>

\* (faulty variant) the write reads the collection again
TabLocal_Reread(tab) ==
    transactionService_getAll(windowDefined, store, tabs[tab].userId)

\* the array the tab holds since its read
TabLocal(tab) == tabs[tab].transactions

\* transactions.push(transaction); localStorage.setItem(key, JSON.stringify(transactions))
TabSaveWrite(tab) ==
    LET key == getUserKey(windowDefined, store, TRANSACTIONS, tabs[tab].userId)
        transactions == Push(TabLocal(tab), tabs[tab].transaction)
    IN  /\ tabs[tab].pc = "read"
        /\ store' = setItem(store, key, StringifyArray(transactions))
        /\ tabs' = [tabs EXCEPT ![tab].pc = "done", ![tab].transactions = transactions]
        /\ writes' = Append(writes, [tab |-> tab, key |-> key,
                                     otherHadRead |-> tabs[OtherTab(tab)].pc = "read",
                                     before |-> ReadArray(windowDefined, store, key)])
        /\ UNCHANGED <<windowDefined, sessionStore, prev, last, saves, ui>>

\* both calls have returned; the tabs are ready for their next calls
TabsReturn ==
    /\ \A tab \in Tabs : tabs[tab].pc = "done"
    /\ tabs' = [tab \in Tabs |-> Idle]
    /\ writes' = << >>
    /\ UNCHANGED <<windowDefined, store, sessionStore, prev, last, saves, ui>>

----------------------------------------------------------------------------
(* Specifications *)

Init ==
    /\ windowDefined \in BOOLEAN
    /\ store = EmptyStore
    /\ sessionStore = {}
    /\ prev = EmptyStore
    /\ last = NoOp
    /\ saves = NoSaves
    /\ tabs = [tab \in Tabs |-> Idle]
    /\ writes = << >>
    /\ route = ""
    /\ pendingTransaction = << >>
    /\ showCategorizeDialog = FALSE
    /\ simulated = << >>

\* key derivation under every session state
NextKeys ==
    \/ \E phone \in Phones : authService_saveSession(phone)
    \/ authService_clearSession
    \/ \E text \in ForeignSessions : ExternalWriteSession(text)
    \/ \E baseKey \in BaseKeys, userId \in UserIds : DeriveKey(baseKey, userId)

SpecKeys == Init /\ [][NextKeys]_vars

\* the PIN under changing sessions
NextPin ==
    \/ \E phone \in {Phone1, Phone2} : authService_saveSession(phone)
    \/ authService_clearSession
    \/ \E pin \in Pins, userId \in {NoUser, User1} : pinService_save(pin, userId)
    \/ \E pin \in Pins, userId \in {NoUser, User1} : pinService_verify(pin, userId)
    \/ \E userId \in {NoUser, User1} : pinService_exists(userId)
    \/ \E userId \in {NoUser, User1} : pinService_remove(userId)
    \/ \E userId \in {NoUser, User1} : pinService_get(userId)

SpecPin == Init /\ [][NextPin]_vars

\* the download history of two users
NextDownloads ==
    \/ \E userId \in {NoUser, User1} : downloadService_save(userId)
    \/ \E userId \in {NoUser, User1} : downloadService_getAll_call(userId)
    \/ \E id \in DeleteIds, userId \in {NoUser, User1} : downloadService_delete(id, userId)
    \/ \E userId \in {NoUser, User1} : downloadService_clear(userId)

SpecDownloads == Init /\ [][NextDownloads]_vars

\* the categories of two users
NextCategories ==
    \/ \E name \in CategoryNames, userId \in {NoUser, User1} :
          categoryService_add(name, userId)
    \/ \E name \in CategoryNames, userId \in {NoUser, User1} :
          categoryService_remove(name, userId)
    \/ \E userId \in {NoUser, User1} : categoryService_getAll_call(userId)
    \/ \E userId \in {NoUser, User1} : categoryService_getNames(userId)

SpecCategories == Init /\ [][NextCategories]_vars

\* the transactions of two users
NextTransactions ==
    \/ \E t \in Txns, userId \in TxnUsers : transactionService_save(t, userId)
    \/ \E ts \in TxnLists, userId \in TxnUsers : transactionService_saveMany(ts, userId)
    \/ \E id \in TxnIds, updates \in Patches, userId \in TxnUsers :
          transactionService_update(id, updates, userId)
    \/ \E id \in TxnIds, userId \in TxnUsers : transactionService_delete(id, userId)
    \/ \E userId \in TxnUsers : transactionService_getAll_call(userId)

SpecTransactions == Init /\ [][NextTransactions]_vars

\* every service reading texts that may have been written out of band; the
\* transactions and the downloads are those of the bare key, the categories
\* and the profile those of an explicit user
CollectionKeys ==
    { getUserKey(TRUE, EmptyStore, TRANSACTIONS, NoUser),
      getUserKey(TRUE, EmptyStore, CATEGORIES, User1),
      getUserKey(TRUE, EmptyStore, DOWNLOADS, NoUser),
      getUserKey(TRUE, EmptyStore, USER_PROFILE, User1) }

NextMalformed ==
    \/ \E key \in CollectionKeys, text \in MalformedTexts : ExternalWrite(key, text)
    \/ transactionService_getAll_call(NoUser)
    \/ transactionService_save(TxnA, NoUser)
    \/ transactionService_update(TxnA["id"], [type |-> UNDEFINED], NoUser)
    \/ transactionService_delete(TxnA["id"], NoUser)
    \/ categoryService_getAll_call(User1)
    \/ categoryService_getNames(User1)
    \/ categoryService_add(<<"F", "o">>, User1)
    \/ categoryService_remove(<<"F", "o">>, User1)
    \/ downloadService_getAll_call(NoUser)
    \/ /\ SavesOf(getUserKey(windowDefined, store, DOWNLOADS, NoUser)).n < MaxTxns
       /\ downloadService_save(NoUser)
    \/ downloadService_delete(Download(1)["id"], NoUser)
    \/ userService_getProfile_call(User1)
    \/ userService_saveProfile([phone |-> Phone2, name |-> <<"Asha">>], User1)
    \/ userService_updateProfile([name |-> <<"Mira">>], User1)

SpecMalformed == Init /\ [][NextMalformed]_vars

\* the readers of every service, on keys that are absent or present
NextReads ==
    \/ authService_saveSession(Phone1)
    \/ authService_clearSession
    \/ \E userId \in {NoUser, User1} : transactionService_save(TxnA, userId)
    \/ \E userId \in {NoUser, User1} : pinService_save(<<"1", "2", "3", "4">>, userId)
    \/ \E userId \in {NoUser, User1} : transactionService_getAll_call(userId)
    \/ \E userId \in {NoUser, User1} : categoryService_getAll_call(userId)
    \/ \E userId \in {NoUser, User1} : categoryService_getNames(userId)
    \/ \E userId \in {NoUser, User1} : downloadService_getAll_call(userId)
    \/ \E userId \in {NoUser, User1} : userService_getProfile_call(userId)
    \/ authService_getSession
    \/ \E userId \in {NoUser, User1} : pinService_get(userId)

SpecReads == Init /\ [][NextReads]_vars

\* categories and transactions side by side; the names are the categories
\* of TxnA and TxnB
NextFrame ==
    \/ \E name \in {TxnA["category"], TxnB["category"]}, userId \in {NoUser, User1} :
          categoryService_add(name, userId)
    \/ \E name \in {TxnA["category"], TxnB["category"]}, userId \in {NoUser, User1} :
          categoryService_remove(name, userId)
    \/ \E t \in {TxnA, TxnB}, userId \in TxnUsers : transactionService_save(t, userId)

SpecFrame == Init /\ [][NextFrame]_vars

\* the filters over the transactions of two users
NextFilters ==
    \/ \E t \in {TxnA, TxnB, TxnD}, userId \in TxnUsers : transactionService_save(t, userId)
    \/ \E category \in FilterCategories, userId \in TxnUsers :
          transactionService_getByCategory(category, userId)
    \/ \E startDate \in RangeDates, endDate \in RangeDates, userId \in TxnUsers :
          transactionService_getByDateRange(startDate, endDate, userId)

SpecFilters == Init /\ [][NextFilters]_vars

\* initializeData over collections that are absent, empty or filled (those
\* of User1) and over collections nothing else writes (those of the bare keys)
NextSeed ==
    \/ \E userId \in {NoUser, User1} : initializeData(userId)
    \/ transactionService_save(TxnA, User1)
    \/ transactionService_delete(TxnA["id"], User1)
    \/ categoryService_add(<<"Pets">>, User1)
    \/ categoryService_remove(<<"Pets">>, User1)

SpecSeed == Init /\ [][NextSeed]_vars

\* every operation of the layer where there is no window (server-side
\* rendering): no localStorage exists
InitNoWindow == Init /\ ~windowDefined

NextNoWindow ==
    \/ \E profile \in Profiles, userId \in {NoUser, User1} :
          userService_saveProfile(profile, userId)
    \/ \E userId \in {NoUser, User1} : userService_getProfile_call(userId)
    \/ \E updates \in ProfilePatches, userId \in {NoUser, User1} :
          userService_updateProfile(updates, userId)
    \/ \E userId \in TxnUsers : transactionService_getAll_call(userId)
    \/ \E t \in Txns, userId \in TxnUsers : transactionService_save(t, userId)
    \/ \E ts \in TxnLists, userId \in TxnUsers : transactionService_saveMany(ts, userId)
    \/ \E id \in TxnIds, updates \in Patches, userId \in TxnUsers :
          transactionService_update(id, updates, userId)
    \/ \E id \in TxnIds, userId \in TxnUsers : transactionService_delete(id, userId)
    \/ \E category \in FilterCategories, userId \in TxnUsers :
          transactionService_getByCategory(category, userId)
    \/ \E startDate \in RangeDates, endDate \in RangeDates, userId \in TxnUsers :
          transactionService_getByDateRange(startDate, endDate, userId)
    \/ \E name \in CategoryNames, userId \in {NoUser, User1} :
          categoryService_add(name, userId)
    \/ \E name \in CategoryNames, userId \in {NoUser, User1} :
          categoryService_remove(name, userId)
    \/ \E userId \in {NoUser, User1} : categoryService_getAll_call(userId)
    \/ \E userId \in {NoUser, User1} : categoryService_getNames(userId)
    \/ \E pin \in Pins, userId \in {NoUser, User1} : pinService_save(pin, userId)
    \/ \E pin \in Pins, userId \in {NoUser, User1} : pinService_verify(pin, userId)
    \/ \E userId \in {NoUser, User1} : pinService_exists(userId)
    \/ \E userId \in {NoUser, User1} : pinService_remove(userId)
    \/ \E userId \in {NoUser, User1} : pinService_get(userId)
    \/ \E phone \in Phones : authService_saveSession(phone)
    \/ authService_getSession
    \/ authService_clearSession
    \/ onboardingService_markComplete
    \/ onboardingService_isComplete
    \/ onboardingService_reset
    \/ \E userId \in {NoUser, User1} : downloadService_save(userId)
    \/ \E userId \in {NoUser, User1} : downloadService_getAll_call(userId)
    \/ \E id \in DeleteIds, userId \in {NoUser, User1} : downloadService_delete(id, userId)
    \/ \E userId \in {NoUser, User1} : downloadService_clear(userId)
    \/ \E userId \in {NoUser, User1} : initializeData(userId)

SpecNoWindow == InitNoWindow /\ [][NextNoWindow]_vars

\* the per-user operations called without a user id while sessions come
\* and go
NextSession ==
    \/ \E phone \in {Phone1, Phone2} : authService_saveSession(phone)
    \/ authService_clearSession
    \/ authService_getSession
    \/ transactionService_save(TxnA, NoUser)
    \/ transactionService_getAll_call(NoUser)
    \/ pinService_save(<<"1", "2", "3", "4">>, NoUser)
    \/ pinService_get(NoUser)
    \/ userService_saveProfile([phone |-> Phone2, name |-> <<"Asha">>], NoUser)
    \/ userService_getProfile_call(NoUser)

SpecSession == Init /\ [][NextSession]_vars

\* Home mounting while sessions come and go; something else may write the
\* key Home reads
NextHome ==
    \/ \E phone \in Phones : authService_saveSession(phone)
    \/ authService_clearSession
    \/ authService_getSession
    \/ \E text \in {RawText(<<"1">>), RawText(<< >>)} : ExternalWrite(HOME_SESSION_KEY, text)
    \/ Home_useEffect

SpecHome == Init /\ [][NextHome]_vars

\* the notification simulator, with and without a session
NextSimulator ==
    \/ authService_saveSession(Phone1)
    \/ \E sim \in Simulations : simulateTransaction(sim)
    \/ \E category \in DialogCategories : handleCategorized(category)
    \/ onDismiss

SpecSimulator == Init /\ [][NextSimulator]_vars

\* every operation of the five per-user services with the explicit user id
\* User1, beside the data of User2, a session and the onboarding flag
NextIsolation ==
    \/ authService_saveSession(Phone1)
    \/ onboardingService_markComplete
    \/ transactionService_saveMany(<<TxnB>>, User2)
    \/ transactionService_getAll_call(User1)
    \/ transactionService_save(TxnA, User1)
    \/ transactionService_saveMany(<<TxnA>>, User1)
    \/ transactionService_update(TxnA["id"], [category |-> TxnA["category"]], User1)
    \/ transactionService_delete(TxnA["id"], User1)
    \/ transactionService_getByCategory(TxnA["category"], User1)
    \/ transactionService_getByDateRange(Date1, Date2, User1)
    \/ categoryService_getAll_call(User1)
    \/ categoryService_getNames(User1)
    \/ categoryService_add(<<"F", "o">>, User1)
    \/ categoryService_remove(<<"F", "o">>, User1)
    \/ downloadService_getAll_call(User1)
    \/ /\ SavesOf(getUserKey(windowDefined, store, DOWNLOADS, User1)).n = 0
       /\ downloadService_save(User1)
    \/ downloadService_delete(Download(1)["id"], User1)
    \/ downloadService_clear(User1)
    \/ userService_getProfile_call(User1)
    \/ userService_saveProfile([phone |-> Phone2, name |-> <<"Asha">>], User1)
    \/ userService_updateProfile([name |-> <<"Asha">>], User1)
    \/ pinService_save(<<"1", "2", "3", "4">>, User1)
    \/ pinService_verify(<<"1", "2", "3", "4">>, User1)
    \/ pinService_exists(User1)
    \/ pinService_get(User1)
    \/ pinService_remove(User1)

SpecIsolation == Init /\ [][NextIsolation]_vars

\* profiles written and read back under every session state
NextProfile ==
    \/ authService_saveSession(Phone1)
    \/ authService_clearSession
    \/ \E userId \in {NoUser, User1} :
          userService_saveProfile([phone |-> Phone2, name |-> <<"Asha">>], userId)
    \/ \E userId \in {NoUser, User1} : userService_getProfile_call(userId)
    \/ \E userId \in {NoUser, User1} :
          userService_updateProfile([name |-> <<"Mira">>], userId)
    \/ \E firstName \in FirstNames, email \in Emails : SetupPage_onSubmit(firstName, email)

SpecProfile == Init /\ [][NextProfile]_vars

\* two tabs saving transactions
NextTabs ==
    \/ \E tab \in Tabs, t \in Txns, userId \in TxnUsers : TabSaveRead(tab, t, userId)
    \/ \E tab \in Tabs : TabSaveWrite(tab)
    \/ TabsReturn

SpecTabs == Init /\ [][NextTabs]_vars

----------------------------------------------------------------------------
(* Claims on key derivation *)

\* the session key holds a record authService wrote, with this phone
SessionPhoneIs(st, phone) ==
    /\ Has(st, AUTH_SESSION)
    /\ st[AUTH_SESSION].kind = "object"
    /\ "phone" \in DOMAIN st[AUTH_SESSION].obj
    /\ st[AUTH_SESSION].obj.phone = phone

Derived == last.op = "getUserKey"

Digits(phone) == SelectSeq(phone, LAMBDA c : c \in {"0", "1", "2", "3", "4", "5", "6", "7", "8", "9"})

\* the session key holds a record with a phone that is not empty once stripped
SessionResolvable(st) ==
    /\ Has(st, AUTH_SESSION)
    /\ st[AUTH_SESSION].kind = "object"
    /\ "phone" \in DOMAIN st[AUTH_SESSION].obj
    /\ Digits(st[AUTH_SESSION].obj.phone) # << >>

\* the session key holds a parseable record whose phone is missing or empty
\* once stripped
SessionWithoutPhone(st) ==
    /\ Has(st, AUTH_SESSION)
    /\ st[AUTH_SESSION].kind = "object"
    /\ ("phone" \in DOMAIN st[AUTH_SESSION].obj =>
            Digits(st[AUTH_SESSION].obj.phone) = << >>)

ThreeForms ==
    \/ last.userId # << >> /\ last.key = last.base \o <<"_">> \o last.userId
    \/ /\ SessionResolvable(store)
       /\ last.key = last.base \o <<"_">> \o Digits(store[AUTH_SESSION].obj.phone)
    \/ last.key = last.base

\* C5 as claimed: the key is base_<explicit id>, base_<session phone without
\* '+'> or the bare base key, and it is the bare base key whenever no user id
\* is supplied and none is resolvable from the session.
C5_Original ==
    Derived =>
        /\ ThreeForms
        /\ (last.userId = << >> /\ ~SessionResolvable(store)) => last.key = last.base

\* C5 (amended): the key has one of four forms, the fourth being base_default:
\* with no user id supplied, a parseable session record whose phone is missing
\* or empty once stripped gives base_default; no session at all, or a session
\* text that does not parse, gives the bare base key.
C5_FourForms ==
    Derived =>
        /\ ThreeForms \/ last.key = last.base \o <<"_", "d", "e", "f", "a", "u", "l", "t">>
        /\ (last.userId = << >> /\ SessionWithoutPhone(store)) =>
              last.key = last.base \o <<"_", "d", "e", "f", "a", "u", "l", "t">>
        /\ (last.userId = << >> /\ ~SessionResolvable(store) /\ ~SessionWithoutPhone(store)) =>
              last.key = last.base

C5_Witness ==
    /\ Derived
    /\ last.userId = << >>
    /\ SessionPhoneIs(store, PlusOnly)
    /\ last.key = <<"transactai_categories", "_", "d", "e", "f", "a", "u", "l", "t">>

----------------------------------------------------------------------------
(* Claims on the PIN *)

\* C6: a PIN operation without a user id targets the PIN key suffixed with the
\* session's phone without '+', so that verify without a user id succeeds only
\* on a PIN stored under the current session's own key.
C6_PinNotVisibleAcrossSessions ==
    (/\ last.op = "pinService.verify"
     /\ last.userId = << >>
     /\ last.flag
     /\ SessionResolvable(store)) =>
        Has(store, <<"transactai_pin", "_">> \o Digits(store[AUTH_SESSION].obj.phone))

----------------------------------------------------------------------------
(* Claims on the download history *)

IsDownloadKey(key) == key[1] = "transactai_downloads"

\* C1: whatever saves, deletes and clears were made for whatever users, every
\* stored download collection has at most 50 entries.
C1_DownloadsBounded ==
    \A key \in DOMAIN store : IsDownloadKey(key) => Len(store[key].arr) <= 50

C1_Witness ==
    /\ last.op = "downloadService.save"
    /\ SavesOf(last.key).n = 51
    /\ Len(store[last.key].arr) = 50

\* the last min(n, 50) of the records saved first to n-th, the newest first
LastSaved(n) ==
    [i \in 1..(IF n < 50 THEN n ELSE 50) |-> Download(n + 1 - i)]

\* C2: after n consecutive saves on an empty collection, with no delete in
\* between, getAll returns the last min(n, 50) saved records, the most recently
\* saved first; after 51 saves the first-saved record is gone and the 51st is
\* at index 0.
C2_NewestFirst ==
    (/\ last.op = "downloadService.getAll"
     /\ windowDefined
     /\ SavesOf(last.key).clean) =>
        /\ ~last.threw
        /\ last.objs = LastSaved(SavesOf(last.key).n)
        /\ SavesOf(last.key).n = 51 =>
              /\ last.objs[1].id = <<"download", "51">>
              /\ \A i \in 1..Len(last.objs) : last.objs[i].id # <<"download", "1">>

C2_Witness ==
    /\ last.op = "downloadService.getAll"
    /\ SavesOf(last.key).clean
    /\ SavesOf(last.key).n = 51
    /\ Len(last.objs) = 50
    /\ last.userId = User1

----------------------------------------------------------------------------
(* Claims on categories *)

IsCategoryKey(key) == key[1] = "transactai_categories"

\* the names that are one name but for letter case
Fo == {<<"F", "o">>, <<"f", "o">>, <<"F", "O">>}
EqualIgnoringCase(a, b) == a = b \/ (a \in Fo /\ b \in Fo)

\* C3: no category collection holds two entries whose names are equal ignoring
\* letter case, and adding a name that differs only in case from a stored name
\* leaves the collection unchanged.
C3_NoCaseDuplicates ==
    /\ \A key \in DOMAIN store : IsCategoryKey(key) =>
          \A i, j \in 1..Len(store[key].arr) :
              i # j => ~EqualIgnoringCase(store[key].arr[i].name, store[key].arr[j].name)
    /\ (/\ last.op = "categoryService.add"
        /\ Has(prev, last.key)
        /\ \E i \in 1..Len(prev[last.key].arr) :
              EqualIgnoringCase(prev[last.key].arr[i].name, last.str)) =>
          store = prev

C3_Witness ==
    /\ last.op = "categoryService.add"
    /\ last.str = <<"f", "o">>
    /\ Has(prev, last.key)
    /\ Len(prev[last.key].arr) = 2
    /\ prev[last.key].arr[2].name = <<"F", "O">>
    /\ store = prev

----------------------------------------------------------------------------
(* Claims on transactions *)

\* what getAll(u) returned before the last operation and returns after it, for
\* the user the operation was called for
Before == IF windowDefined /\ Has(prev, last.key) THEN prev[last.key].arr ELSE << >>
After == IF windowDefined /\ Has(store, last.key) THEN store[last.key].arr ELSE << >>

\* o.f: undefined when o has no property f
Field(o, f) == IF f \in DOMAIN o THEN o[f] ELSE <<"%undefined">>

\* every field of the one record equals that field of the other
SameRecord(a, b) ==
    \A f \in (DOMAIN a) \cup (DOMAIN b) : Field(a, f) = Field(b, f)

SameList(xs, ys) ==
    Len(xs) = Len(ys) /\ \A i \in 1..Len(xs) : SameRecord(xs[i], ys[i])

\* C7 as claimed: on an empty store, after saveMany(ts, u) getAll(u) equals ts,
\* and after save(t, u) getAll(u) equals [t], every field as it was saved.
C7_Original ==
    (windowDefined /\ prev = EmptyStore) =>
        /\ last.op = "transactionService.saveMany" => SameList(After, last.objs)
        /\ last.op = "transactionService.save" => SameList(After, <<last.obj>>)

\* the amount is a finite number
FiniteAmount(t) == t.amount # <<"%NaN">>

\* C7 (amended): for transactions whose amount is a finite number, after
\* saveMany(ts, u) getAll(u) equals ts, and each save(t, u) makes getAll(u) the
\* prior getAll(u) with t appended, so that saves on an empty store come back in
\* insertion order with every field as saved.
C7_RoundTrip ==
    windowDefined =>
        /\ (/\ last.op = "transactionService.saveMany"
            /\ \A i \in 1..Len(last.objs) : FiniteAmount(last.objs[i])) =>
              SameList(After, last.objs)
        /\ (last.op = "transactionService.save" /\ FiniteAmount(last.obj)) =>
              /\ Len(After) = Len(Before) + 1
              /\ SameRecord(After[Len(After)], last.obj)
              /\ \A i \in 1..Len(Before) : After[i] = Before[i]

C7_Witness ==
    /\ last.op = "transactionService.save"
    /\ Len(Before) = 1
    /\ Before[1].id = <<"t1">>
    /\ Len(After) = 2
    /\ After[1] = Before[1]
    /\ last.obj.id = <<"t2">>
    /\ After[2].amount = <<"250">>
    /\ last.userId = User1

\* the first transaction with the id, 0 when there is none
Target(ts, id) ==
    IF \A i \in 1..Len(ts) : ts[i].id # id THEN 0
    ELSE CHOOSE i \in 1..Len(ts) :
            ts[i].id = id /\ \A j \in 1..Len(ts) : ts[j].id = id => i <= j

\* C8: update(id, patch, u) on a collection holding a transaction with that id
\* changes only the fields named in the patch, of the targeted transaction:
\* its other fields, every other transaction, and the number and order of the
\* transactions stay as they were.
C8_UpdateFrame ==
    (/\ last.op = "transactionService.update"
     /\ windowDefined
     /\ Target(Before, last.id) # 0) =>
        LET i == Target(Before, last.id) IN
        /\ Len(After) = Len(Before)
        /\ \A j \in 1..Len(Before) : j # i => After[j] = Before[j]
        /\ \A f \in ((DOMAIN Before[i]) \cup (DOMAIN After[i])) \ DOMAIN last.obj :
              /\ f \in DOMAIN Before[i]
              /\ f \in DOMAIN After[i]
              /\ After[i][f] = Before[i][f]

C8_Witness ==
    /\ last.op = "transactionService.update"
    /\ Len(Before) = 2
    /\ Target(Before, last.id) = 2
    /\ After[2].category = <<"Bills">>
    /\ Before[2].category = <<"Travel">>
    /\ After[2].amount = Before[2].amount

NoMatch == \A i \in 1..Len(Before) : Before[i].id # last.id

\* C9 as claimed: update and delete with an id that matches no stored
\* transaction raise no error and leave the store as it was: every key has the
\* value it had and a key that was absent is still absent.
C9_Original ==
    (/\ last.op \in {"transactionService.update", "transactionService.delete"}
     /\ NoMatch) =>
        ~last.threw /\ store = prev

\* C9 (amended): with an id that matches no stored transaction, update raises
\* no error and leaves the store as it was; delete raises no error, leaves
\* every other key and what getAll(u) returns as they were, and rewrites the
\* user's transaction key: a key that was present keeps its value, a key that
\* was absent is present afterwards and holds the empty list.
C9_NotFound ==
    /\ (last.op = "transactionService.update" /\ NoMatch) =>
          ~last.threw /\ store = prev
    /\ (last.op = "transactionService.delete" /\ NoMatch) =>
          /\ ~last.threw
          /\ After = Before
          /\ \A key \in ((DOMAIN store) \cup (DOMAIN prev)) \ {last.key} :
                key \in DOMAIN store /\ key \in DOMAIN prev /\ store[key] = prev[key]
          /\ Has(prev, last.key) => store = prev
          /\ (windowDefined /\ ~Has(prev, last.key)) =>
                Has(store, last.key) /\ store[last.key].arr = << >>

C9_Witness ==
    /\ last.op = "transactionService.delete"
    /\ last.id = <<"t9">>
    /\ ~Has(prev, last.key)
    /\ Has(store, last.key)
    /\ DOMAIN prev # {}

\* ts with every transaction whose id is id taken out, the rest in order
RECURSIVE Without(_, _)
Without(ts, id) ==
    IF ts = << >> THEN << >>
    ELSE IF Head(ts).id = id THEN Without(Tail(ts), id)
    ELSE <<Head(ts)>> \o Without(Tail(ts), id)

\* C10: delete(id, u) makes getAll(u) the prior getAll(u) with every transaction
\* whose id is id taken out and the rest in their order; deleting an id that is
\* not there leaves what getAll(u) returns unchanged.
C10_DeleteFilters ==
    last.op = "transactionService.delete" =>
        /\ ~last.threw
        /\ After = Without(Before, last.id)
        /\ NoMatch => After = Before

C10_Witness ==
    /\ last.op = "transactionService.delete"
    /\ Len(Before) = 2
    /\ Before[1].id = <<"t1">>
    /\ Before[2].id = <<"t2">>
    /\ last.id = <<"t1">>
    /\ After = <<Before[2]>>

----------------------------------------------------------------------------
(* Claims on concurrent writers *)

\* both calls have returned, and both had read before either wrote
RaceDone ==
    /\ \A tab \in Tabs : tabs[tab].pc = "done"
    /\ Len(writes) = 2
    /\ writes[1].otherHadRead
    /\ writes[1].key = writes[2].key

Contains(ts, t) == \E i \in 1..Len(ts) : ts[i] = JSONObject(t)

\* C11: when two transactionService.save calls for the same user both read
\* the collection before either writes, both return without an error and the
\* collection stored in the end is the collection they read followed by the
\* transaction of the tab that wrote last: the push of the tab that wrote
\* first is lost (its transaction is in the collection only if it was there
\* before or equals the last writer's).
C11_LastWriteWins ==
    RaceDone =>
        LET first == writes[1].tab
            second == writes[2].tab
            read == writes[1].before
            final == ReadArray(windowDefined, store, writes[2].key)
        IN  /\ ~tabs[first].threw /\ ~tabs[second].threw
            /\ final = JSONArray(Push(read, tabs[second].transaction))
            /\ Contains(final, tabs[second].transaction)
            /\ (/\ ~Contains(read, tabs[first].transaction)
                /\ JSONObject(tabs[first].transaction)
                       # JSONObject(tabs[second].transaction))
               => ~Contains(final, tabs[first].transaction)

\* a race on a collection that already holds a transaction, in which the
\* first writer's transaction is lost
C11_Witness ==
    /\ RaceDone
    /\ Len(writes[1].before) = 1
    /\ tabs[writes[1].tab].transaction = TxnB
    /\ tabs[writes[2].tab].transaction = TxnA
    /\ ~Contains(ReadArray(windowDefined, store, writes[2].key), TxnB)

----------------------------------------------------------------------------
(* Claims on transaction ids *)

IsTransactionKey(key) == Len(key) >= 1 /\ key[1] = TRANSACTIONS[1]

\* C12: no stored transaction collection holds two transactions with the
\* same id.
C12_UniqueIds ==
    \A key \in DOMAIN store :
        IsTransactionKey(key) /\ store[key].kind = "array" =>
            \A i, j \in 1..Len(store[key].arr) :
                store[key].arr[i]["id"] = store[key].arr[j]["id"] => i = j

----------------------------------------------------------------------------
(* Claims on malformed stored texts *)

\* the readers, and the mutators that read the stored value first
ReadingOps ==
    { "transactionService.getAll", "transactionService.save",
      "transactionService.update", "transactionService.delete",
      "categoryService.getAll", "categoryService.getNames",
      "categoryService.add", "categoryService.remove",
      "downloadService.getAll", "downloadService.save", "downloadService.delete",
      "userService.getProfile", "userService.updateProfile" }

\* the last operation read a key that held a text that is not JSON
ReadMalformed ==
    /\ last.op \in ReadingOps
    /\ Has(prev, last.key)
    /\ ParseThrows(prev[last.key])

\* C13 as stated: whenever the text under the key is not valid JSON, the
\* operation fails and the store is unchanged.
C13_Original == ReadMalformed => last.threw /\ store = prev

\* C13: a reader, or a mutator that reads first, that finds a non-empty text
\* that is not JSON under its key fails with the parse error and leaves the
\* store unchanged; an empty text is read as an absent key and raises
\* nothing.
C13_MalformedPropagates ==
    ReadMalformed =>
        IF Truthy(prev[last.key])
        THEN last.threw /\ store = prev
        ELSE ~last.threw

\* save on a transaction key that holds "not json"
C13_Witness ==
    /\ last.op = "transactionService.save"
    /\ ReadMalformed
    /\ prev[last.key] = RawText(<<"not json">>)
    /\ last.threw
    /\ store = prev

----------------------------------------------------------------------------
(* Claims on reads of absent keys *)

ListReaders ==
    { "transactionService.getAll", "categoryService.getAll",
      "categoryService.getNames", "downloadService.getAll" }

NullReaders == { "userService.getProfile", "authService.getSession", "pinService.get" }

\* the last operation was a read of a key that was absent
ReadAbsent ==
    /\ last.op \in ListReaders \cup NullReaders
    /\ ~Has(prev, last.key)

\* C14: a read of an absent key never fails: with an explicit user id or one
\* derived from the session, the getAll and getNames readers return the empty
\* list, getProfile, getSession and pinService.get return null, and the store
\* is left as it was.
C14_AbsentReads ==
    ReadAbsent =>
        /\ ~last.threw
        /\ store = prev
        /\ last.op \in ListReaders => last.objs = << >>
        /\ last.op \in NullReaders => last.str = NULL /\ ~last.flag

\* getAll without a user id under a session whose namespace is empty, while
\* the bare key holds transactions
C14_Witness ==
    /\ ReadAbsent
    /\ last.op = "transactionService.getAll"
    /\ last.userId = NoUser
    /\ last.key = Suffixed(TRANSACTIONS, StripPlus(Phone1))
    /\ Has(store, TRANSACTIONS)
    /\ last.objs = << >>

----------------------------------------------------------------------------
(* Claims on categories and transactions *)

\* the keys that satisfy Is hold in the store what they held before the call
Kept(keys) ==
    \A key \in keys :
        /\ Has(prev, key) <=> Has(store, key)
        /\ Has(store, key) => store[key] = prev[key]

TransactionKeys == {key \in (DOMAIN store) \cup (DOMAIN prev) : IsTransactionKey(key)}
CategoryKeys == {key \in (DOMAIN store) \cup (DOMAIN prev) : IsCategoryKey(key)}

\* the category names stored under key in st
NamesAt(st, key) ==
    IF Has(st, key) THEN {st[key].arr[i]["name"] : i \in 1..Len(st[key].arr)} ELSE {}

\* C16: categoryService.add and categoryService.remove leave every
\* transaction collection as it was, also the transactions whose category is
\* the name; transactionService.save raises nothing, stores the transaction
\* in a browser, whether or not its category is a stored category, and leaves
\* every category collection as it was.
C16_NoReferentialIntegrity ==
    /\ last.op \in {"categoryService.add", "categoryService.remove"} =>
          Kept(TransactionKeys)
    /\ last.op = "transactionService.save" =>
          /\ ~last.threw
          /\ Kept(CategoryKeys)
          /\ windowDefined =>
                After = Append(Before, JSONObject(last.obj))

\* a category is removed while a stored transaction of the user carries it
C16_Witness ==
    /\ last.op = "categoryService.remove"
    /\ last.str = TxnA["category"]
    /\ last.str \in NamesAt(prev, last.key)
    /\ last.str \notin NamesAt(store, last.key)
    /\ \E key \in TransactionKeys :
          /\ Has(store, key)
          /\ \E i \in 1..Len(store[key].arr) : store[key].arr[i]["category"] = last.str
          /\ key = getUserKey(windowDefined, store, TRANSACTIONS, last.userId)

\* a transaction is saved whose category is not a stored category
C16_WitnessSave ==
    /\ last.op = "transactionService.save"
    /\ windowDefined
    /\ last.obj["category"]
          \notin NamesAt(store, getUserKey(windowDefined, store, CATEGORIES, last.userId))
    /\ Has(store, getUserKey(windowDefined, store, CATEGORIES, last.userId))

----------------------------------------------------------------------------
(* Claims on the filters *)

\* the elements of ts that are in the set wanted, in the order of ts
RECURSIVE Restrict(_, _)
Restrict(ts, wanted) ==
    IF ts = << >> THEN << >>
    ELSE (IF Head(ts) \in wanted THEN <<Head(ts)>> ELSE << >>)
             \o Restrict(Tail(ts), wanted)

Elements(ts) == {ts[i] : i \in 1..Len(ts)}

\* s <= d <= e as instants
Between(d, s, e) ==
    /\ IsDate(d) /\ IsDate(s) /\ IsDate(e)
    /\ TimeValue(s) <= TimeValue(d)
    /\ TimeValue(d) <= TimeValue(e)

\* C18: getByCategory and getByDateRange do not modify the store and return
\* transactions of getAll(u) in getAll's order: getByCategory(c) exactly
\* those whose category is c letter for letter, getByDateRange(s, e) exactly
\* those whose date d is an instant with s <= d <= e, both ends included, so
\* none when s is after e.
C18_PureFilters ==
    /\ last.op = "transactionService.getByCategory" =>
          /\ store = prev
          /\ last.objs = Restrict(Before, {t \in Elements(Before) :
                                              Field(t, "category") = last.str})
    /\ last.op = "transactionService.getByDateRange" =>
          /\ store = prev
          /\ last.objs = Restrict(Before, {t \in Elements(Before) :
                                Between(Field(t, "date"), last.obj["startDate"],
                                        last.obj["endDate"])})
          /\ (/\ IsDate(last.obj["startDate"]) /\ IsDate(last.obj["endDate"])
              /\ TimeValue(last.obj["startDate"]) > TimeValue(last.obj["endDate"]))
             => last.objs = << >>

\* a range that ends at the very instant of a stored transaction returns
\* it, and leaves out another stored transaction
C18_Witness ==
    /\ last.op = "transactionService.getByDateRange"
    /\ last.obj["endDate"] = <<"2026-01-10T15:00:00.000+05:30">>
    /\ last.obj["startDate"] = <<"2026-01-10">>
    /\ Len(Before) = 2
    /\ last.objs = <<JSONObject(TxnA)>>

----------------------------------------------------------------------------
(* Claims on the PIN *)

\* a PIN has been saved for the user of the last call and not removed since
\* (in a browser, the PIN key is written by pinService.save only and removed
\* by pinService.remove only)
PinSaved == windowDefined /\ Has(store, last.key)

\* C19: in a browser, while a PIN p saved for u has not been removed, get(u)
\* is p, verify(q, u) is true exactly for q = p and exists(u) is true; after
\* remove(u), or when no PIN was saved, get(u) is null and exists(u) and
\* every verify(q, u) are false.  So verify is never true where exists is
\* false.
C19_PinLifecycle ==
    windowDefined =>
        /\ last.op = "pinService.get" =>
              last.str = IF PinSaved THEN store[last.key].str ELSE NULL
        /\ last.op = "pinService.verify" =>
              (last.flag <=> PinSaved /\ last.str = store[last.key].str)
        /\ last.op = "pinService.exists" => (last.flag <=> PinSaved)

----------------------------------------------------------------------------
(* Claims on initializeData *)

\* the array stored under key in st; none stored is the empty array
ArrayAt(st, key) == IF Has(st, key) THEN st[key].arr ELSE << >>

SameAt(key) ==
    /\ Has(prev, key) <=> Has(store, key)
    /\ Has(store, key) => store[key] = prev[key]

\* C20: in a browser, initializeData(u) leaves a transaction collection
\* that has entries as it is and replaces any other by 50 generated
\* transactions; it leaves a category collection that has entries as it is
\* and makes any other the 9 default names in their listed order; and the
\* store it leaves is one that a further initializeData(u) does not change.
C20_SeedsOnceOnly ==
    (windowDefined /\ last.op = "initializeData") =>
        /\ IF Len(ArrayAt(prev, last.key)) > 0
           THEN SameAt(last.key)
           ELSE /\ Len(ArrayAt(store, last.key)) = 50
                /\ \E seed \in Seeds, stamp \in Nows :
                      ArrayAt(store, last.key)
                          = JSONArray(generateSimulatedTransactions(seed, stamp, 50))
        /\ IF Len(ArrayAt(prev, last.str)) > 0
           THEN SameAt(last.str)
           ELSE /\ Len(ArrayAt(store, last.str)) = 9
                /\ \A i \in 1..9 :
                      ArrayAt(store, last.str)[i]["name"] = DefaultCategories[i]
        /\ \A seed \in Seeds, stamp \in Nows, now \in Clock :
              Initialized(windowDefined, store, last.userId, seed, stamp, now) = store

\* transactions that were there are kept while the categories, present but
\* empty, are seeded
C20_Witness ==
    /\ windowDefined
    /\ last.op = "initializeData"
    /\ last.userId = User1
    /\ ArrayAt(prev, last.key) = <<JSONObject(TxnA)>>
    /\ ArrayAt(store, last.key) = <<JSONObject(TxnA)>>
    /\ Has(prev, last.str)
    /\ ArrayAt(prev, last.str) = << >>
    /\ Len(ArrayAt(store, last.str)) = 9

\* both collections were absent and are seeded
C20_WitnessFresh ==
    /\ windowDefined
    /\ last.op = "initializeData"
    /\ ~Has(prev, last.key) /\ ~Has(prev, last.str)
    /\ Len(ArrayAt(store, last.key)) = 50
    /\ Len(ArrayAt(store, last.str)) = 9

----------------------------------------------------------------------------
(* Claims on the layer without a window *)

FilterReaders == {"transactionService.getByCategory", "transactionService.getByDateRange"}

FlagReaders == {"pinService.verify", "pinService.exists", "onboardingService.isComplete"}

\* C15: where there is no window, no operation of userService,
\* transactionService, categoryService, pinService, authService,
\* onboardingService, downloadService or initializeData writes anything or
\* raises: the list readers return the empty list, getProfile, getSession and
\* pinService.get return null, verify, exists and isComplete return false.
C15_NoWindowNoOps ==
    ~windowDefined =>
        /\ store = EmptyStore
        /\ store = prev
        /\ sessionStore = {}
        /\ ~last.threw
        /\ last.op \in ListReaders \cup FilterReaders => last.objs = << >>
        /\ last.op \in NullReaders => last.str = NULL /\ ~last.flag
        /\ last.op \in FlagReaders => ~last.flag

\* updateProfile, which has no guard of its own, has run without a window
C15_Witness ==
    /\ ~windowDefined
    /\ last.op = "userService.updateProfile"
    /\ store = EmptyStore
    /\ ~last.threw

----------------------------------------------------------------------------
(* Claims on the session as the current user *)

\* the operations that take an optional user id
PerUserOps ==
    PinOps \cup ReadingOps \cup FilterReaders
        \cup {"transactionService.saveMany", "userService.saveProfile",
              "downloadService.clear", "initializeData"}

\* the key belongs to no namespace, or to another one than the phone's
Foreign(key, phone) ==
    /\ key # AUTH_SESSION
    /\ \A base \in BaseKeys \cup {PIN} : key # Suffixed(base, StripPlus(phone))

\* the session getSession returned is the one stored
ReturnedStored ==
    IF Has(store, AUTH_SESSION)
    THEN last.flag /\ last.obj = store[AUTH_SESSION].obj
    ELSE last.str = NULL

\* C17: in a browser the session is the one record under the session key:
\* saveSession(p) makes its phone p, clearSession removes it, nothing else
\* changes it, and getSession returns it (null when there is none); an
\* operation called without a user id while the session's phone is p targets
\* the key of its kind suffixed with p ('+' removed) and leaves every key of
\* another namespace as it was.
C17_SessionDefinesUser ==
    windowDefined =>
        /\ last.op = "authService.saveSession" => SessionPhoneIs(store, last.str)
        /\ last.op = "authService.clearSession" => ~Has(store, AUTH_SESSION)
        /\ last.op \notin {"authService.saveSession", "authService.clearSession", "none"}
              => SameAt(AUTH_SESSION)
        /\ last.op = "authService.getSession" => ReturnedStored
        /\ \A phone \in {Phone1, Phone2} :
              (/\ last.op \in PerUserOps
               /\ last.userId = NoUser
               /\ SessionPhoneIs(prev, phone))
              => /\ last.key = Suffixed(last.base, StripPlus(phone))
                 /\ \A key \in (DOMAIN prev) \cup (DOMAIN store) :
                       Foreign(key, phone) => SameAt(key)

----------------------------------------------------------------------------
(* Claims on Home *)

\* a session exists: saveSession was called and clearSession not since (the
\* session key is written and removed by authService only)
SessionExists == Has(store, AUTH_SESSION)

\* C21: when Home has mounted, the route is /unlock if a session exists and
\* /onboarding if none does.
C21_RoutesBySession ==
    last.op = "Home.useEffect" =>
        route = IF SessionExists THEN "/unlock" ELSE "/onboarding"

----------------------------------------------------------------------------
(* Claims on the notification simulator *)

\* the personal transactions that are pending
Pending == {n \in 1..Len(simulated) : ~simulated[n].isBusiness /\ simulated[n].ended = ""}

RECURSIVE TotalSaves(_)
TotalSaves(items) ==
    IF items = << >> THEN 0 ELSE Head(items).saves + TotalSaves(Tail(items))

\* the transactions stored, with and without the session's namespace
StoredTransactions ==
    Len(ArrayAt(store, TRANSACTIONS))
        + Len(ArrayAt(store, Suffixed(TRANSACTIONS, StripPlus(Phone1))))

\* C22: every simulated transaction is saved at most once: a business one
\* in the click that made it; a personal one, held as the one pending
\* transaction, when the user categorizes it, and then nothing is pending;
\* one that was dismissed, or replaced by a later personal one, never.  The
\* stored transactions are those saves and no others.
C22_SavedOnceOnItsPath ==
    /\ \A n \in 1..Len(simulated) :
          /\ simulated[n].saves <= 1
          /\ simulated[n].isBusiness =>
                simulated[n].saves = 1 /\ simulated[n].ended = "click"
          /\ ~simulated[n].isBusiness =>
                (simulated[n].saves = 1 <=> simulated[n].ended = "categorized")
          /\ simulated[n].ended \in {"dismissed", "replaced"} => simulated[n].saves = 0
    /\ Cardinality(Pending) <= 1
    /\ pendingTransaction # << >> <=> Pending # {}
    /\ \A n \in Pending :
          /\ pendingTransaction[1].amount = simulated[n].amount
          /\ pendingTransaction[1].receiver = simulated[n].receiver
    /\ last.op = "NotificationSimulator.handleCategorized" => pendingTransaction = << >>
    /\ StoredTransactions = TotalSaves(simulated)

\* one personal transaction was replaced, the next was categorized, and a
\* business one was saved at its click
C22_Witness ==
    /\ Len(simulated) = 3
    /\ simulated[1].ended = "replaced" /\ simulated[1].saves = 0
    /\ simulated[2].ended = "categorized" /\ simulated[2].saves = 1
    /\ simulated[3].isBusiness /\ simulated[3].saves = 1
    /\ StoredTransactions = 2

----------------------------------------------------------------------------
(* C23 *)

TransactionOps ==
    { "transactionService.getAll", "transactionService.save",
      "transactionService.saveMany", "transactionService.update",
      "transactionService.delete", "transactionService.getByCategory",
      "transactionService.getByDateRange" }
CategoryOps ==
    { "categoryService.getAll", "categoryService.getNames", "categoryService.add",
      "categoryService.remove" }
DownloadOps ==
    { "downloadService.getAll", "downloadService.save", "downloadService.delete",
      "downloadService.clear" }
ProfileOps ==
    { "userService.getProfile", "userService.saveProfile", "userService.updateProfile" }

\* the storage key of the entity kind of the operation, for the user
KindOf(op) ==
    IF op \in TransactionOps THEN <<"transactai_transactions">>
    ELSE IF op \in CategoryOps THEN <<"transactai_categories">>
    ELSE IF op \in DownloadOps THEN <<"transactai_downloads">>
    ELSE IF op \in ProfileOps THEN <<"transactai_user_profile">>
    ELSE <<"transactai_pin">>
OwnKey(op, userId) == KindOf(op) \o <<"_">> \o userId

IsolatedOps == TransactionOps \cup CategoryOps \cup DownloadOps \cup ProfileOps \cup PinOps

\* C23: an operation of transactionService, categoryService, downloadService,
\* userService or pinService called with an explicit user id A leaves every
\* storage key unchanged but the key of its entity kind suffixed with A: the
\* keys of other users, the keys of other kinds, the auth session and the
\* onboarding flag are as they were.
C23_PerUserIsolation ==
    (last.op \in IsolatedOps /\ last.userId # << >>) =>
        \A key \in ((DOMAIN store) \cup (DOMAIN prev)) \ {OwnKey(last.op, last.userId)} :
            SameAt(key)

C23_Witness ==
    /\ last.op = "transactionService.save"
    /\ last.userId = User1
    /\ store # prev
    /\ Has(prev, OwnKey("transactionService.save", User2))
    /\ Has(prev, OwnKey("categoryService.add", User1))
    /\ Has(prev, OwnKey("userService.saveProfile", User1))
    /\ Has(prev, OwnKey("pinService.save", User1))
    /\ Has(prev, AUTH_SESSION)
    /\ Has(prev, ONBOARDING_COMPLETE)

----------------------------------------------------------------------------
(* C24 *)

ProfileWriters == { "userService.saveProfile", "SetupPage.onSubmit" }

\* the fields of a profile other than updatedAt, as JSON keeps them
ProfileFields(profile) ==
    LET kept == JSONObject(profile)
    IN  [k \in (DOMAIN kept) \ {"updatedAt"} |-> kept[k]]

\* what userService.getProfile(userId) returns now: a profile, or null
ProfileRead(userId) ==
    LET key == getUserKey(windowDefined, store, USER_PROFILE, userId)
    IN  IF Present(store, key) /\ ~ParseThrows(store[key])
        THEN userService_getProfile(windowDefined, store, userId)
        ELSE NULL

\* what userService.getProfile(userId) returned before the last operation
ProfileReadBefore(userId) ==
    LET key == getUserKey(windowDefined, prev, USER_PROFILE, userId)
    IN  IF Present(prev, key) /\ ~ParseThrows(prev[key])
        THEN userService_getProfile(windowDefined, prev, userId)
        ELSE NULL

\* C24: in a browser, after userService.saveProfile(p, u), with u omitted or
\* explicit and under any session state, userService.getProfile(u) returns a
\* profile whose fields other than updatedAt are those of p; and after
\* userService.updateProfile(patch, u) on a stored profile, getProfile(u)
\* returns every field that is not in the patch as it was.
C24_ProfileRoundTrip ==
    /\ (windowDefined /\ last.op \in ProfileWriters /\ ~last.threw) =>
          /\ ProfileRead(last.userId) # NULL
          /\ ProfileFields(ProfileRead(last.userId)) = ProfileFields(last.obj)
    /\ (windowDefined /\ last.op = "userService.updateProfile"
          /\ ProfileReadBefore(last.userId) # NULL) =>
          /\ ProfileRead(last.userId) # NULL
          /\ \A k \in (DOMAIN ProfileFields(ProfileReadBefore(last.userId)))
                         \ (DOMAIN last.obj) :
                /\ k \in DOMAIN ProfileRead(last.userId)
                /\ ProfileRead(last.userId)[k] = ProfileReadBefore(last.userId)[k]

----------------------------------------------------------------------------
(* C25 *)

\* a stored category whose name is Y but for letter case, and is not Y
DiffersInCaseOnly(categories, name) ==
    \E i \in 1..Len(categories) :
        categories[i].name # name /\ EqualIgnoringCase(categories[i].name, name)

\* C25: in a browser, categoryService.remove(name, u) on a collection that
\* parses leaves exactly the stored categories whose name is not identical to
\* name, in their order; a category stored as X therefore survives remove(Y)
\* for a Y that differs from X only in letter case, and categoryService.add(Y, u)
\* still changes nothing afterwards.
C25_RemoveIsCaseSensitive ==
    (windowDefined /\ last.op = "categoryService.remove" /\ ~last.threw) =>
        /\ Has(store, last.key)
        /\ After = Restrict(Before, {c \in Elements(Before) : c.name # last.str})
        /\ DiffersInCaseOnly(Before, last.str) =>
              /\ DiffersInCaseOnly(After, last.str)
              /\ \A now \in Clock :
                    CategoryAdded(windowDefined, store, last.str, last.userId, now) = store

C25_Witness ==
    /\ windowDefined
    /\ last.op = "categoryService.remove"
    /\ last.str = <<"f", "o">>
    /\ Len(Before) = 2
    /\ \E i \in 1..2 : Before[i].name = <<"F", "o">>
    /\ After = Before

====
